---------------------------- MODULE Spec2Model ----------------------------
(***************************************************************************)
(* Connection and session management of terminalapp.                       *)
(*                                                                         *)
(* The repository holds two programs that share the connection pool code:  *)
(*   build = "root"       app.go + sshconnection.go + cmdrunner.go         *)
(*   build = "artifacts"  artifacts/main.go                                *)
(* NewApp of the root program builds the pool as a struct literal (no      *)
(* sweeper task, app.go:45-54); NewApp of artifacts/main.go calls          *)
(* NewSSHConnectionPool, which starts cleanupIdleConnections.              *)
(*                                                                         *)
(* Strings that the code formats or slices (profile names, pool keys) are  *)
(* sequences of one-character strings.  Time is kept as elapsed ticks      *)
(* since the instant the code stamped (LastUsed, start of the sleep),      *)
(* saturating just above the threshold the code compares them with.        *)
(***************************************************************************)
EXTENDS Integers, Sequences, FiniteSets, TLC

\* ------------------------------------------------------------------ bounds
MaxDials == 2
IdleTicks == 1
MaxSessions == 2
MaxChunks == 2
MaxStops == 1
MaxClears == 1
MaxForwards == 2
MaxPairs == 1
MaxFileLen == 3
ChunkSize == 2
MaxTransfers == 2
MaxTasks == 2

\* ------------------------------------------------------------------ inputs
Builds == {"root", "artifacts"}
Profiles == {<<"a">>, <<"a", "-", "b">>}
NoString == <<>>

\* the key file at path "k" is readable and parses; the one at "x" does not
KeyFileOk(path) == path = <<"k">>

SSHConfig(name, host, username, password, keyPath) ==
    [Name |-> name, Host |-> host, Username |-> username,
     Password |-> password, SSHKeyPath |-> keyPath]

\* the profiles the frontend can hand to ConnectSSHWithHostKeyCheck: for
\* each name one with a password, one with a good key, one with a bad key,
\* one with neither, and profiles that lack the name, the host or the user
SSHConfigs ==
    UNION {{SSHConfig(n, <<"h">>, <<"u">>, <<"p">>, NoString),
            SSHConfig(n, <<"h">>, <<"u">>, NoString, <<"k">>),
            SSHConfig(n, <<"h">>, <<"u">>, NoString, <<"x">>),
            SSHConfig(n, <<"h">>, <<"u">>, NoString, NoString),
            SSHConfig(n, NoString, <<"u">>, <<"p">>, NoString),
            SSHConfig(n, <<"h">>, NoString, <<"p">>, NoString)} : n \in Profiles}
    \cup {SSHConfig(NoString, <<"h">>, <<"u">>, <<"p">>, NoString)}

\* the <profile>.yaml file read by loadSSHConfig: every profile has one host
loadSSHConfig(profile) == [Host |-> <<"h">>, Username |-> <<"u">>, SSHKeyPath |-> <<"k">>]

\* address := fmt.Sprintf("%s:%s", config.Host, config.Port), port kept implicit
Address(profile) == loadSSHConfig(profile).Host

VARIABLES
    build,        \* which program runs
    connections,  \* SSHConnectionPool.connections: key -> [Client, idle]
    clients,      \* every *ssh.Client ever dialed: [profile, open, broken]
    dialed,       \* clients dialed by ConnectSSHWithHostKeyCheck, not yet stored
    slept,        \* ticks since cleanupIdleConnections went to sleep
    ret,          \* what the last call returned
    sessions,     \* every ExecuteInteractiveCommand invocation that got a client
    activeSessions, \* activeSessions (root) / interactiveCommands (artifacts)
    stops,        \* StopInteractiveCommand invocations in flight
    cleared,      \* the "clear" events emitted, by profile
    chunks,       \* output chunks the remote commands have produced so far
    activeForwards, \* activeForwards (portfarward.go): profile -> slice
    heap,         \* the backing arrays of the slices of activeForwards
    listed,       \* the slices GetActivePortForwards has returned
    listeners,    \* every listener PortForward has opened
    pairs,        \* every connection an accept loop has accepted
    panicked,     \* the process has died of an unrecovered panic
    localFiles,   \* the files of the local disk: path -> bytes
    remoteFiles,  \* the files of the remote host: path -> bytes
    transfers,    \* every UploadFile / DownloadFile call that got going
    tasks,        \* the calls in flight, at the grain of their lock operations
    mutex,        \* the holder of each registry mutex, 0 when it is free
    historyFiles, \* the history files: profile -> pieces between newlines
    added         \* the commands AddCommandToHistory has written, in order

sessVars == <<sessions, activeSessions, stops, cleared, chunks>>
fwdVars == <<activeForwards, heap, listed, listeners, pairs, panicked>>
xferVars == <<localFiles, remoteFiles, transfers>>
lockVars == <<tasks, mutex>>
histVars == <<historyFiles, added>>
vars == <<build, connections, clients, dialed, slept, ret, sessions,
          activeSessions, stops, cleared, chunks, activeForwards, heap,
          listed, listeners, pairs, panicked, localFiles, remoteFiles,
          transfers, tasks, mutex, historyFiles, added>>

\* ----------------------------------------------------------- pure helpers
\* key := fmt.Sprintf("%s-%s", profile, address)
PoolKey(profile, address) == profile \o <<"-">> \o address

\* strings.Index(key, "-"): 0-based index of the first "-", or -1
Index(s, ch) ==
    IF \E i \in 1..Len(s) : s[i] = ch
    THEN (CHOOSE i \in 1..Len(s) : s[i] = ch /\ \A j \in 1..(i - 1) : s[j] # ch) - 1
    ELSE -1

\* key[:n]
Prefix(s, n) == SubSeq(s, 1, n)

\* a map with one key removed / one key set
Delete(m, k) == [x \in DOMAIN m \ {k} |-> m[x]]
Put(m, k, v) == [x \in DOMAIN m \cup {k} |-> IF x = k THEN v ELSE m[x]]

Min(a, b) == IF a < b THEN a ELSE b

\* ssh.Dial: a new client, open and healthy
NewClient(profile) == [profile |-> profile, open |-> TRUE, broken |-> FALSE]

\* conn.Client.Close(): the client is closed afterwards in every case
CloseClient(cs, c) == [cs EXCEPT ![c].open = FALSE]

\* conn.Client.Close() may report an error only when the transport is
\* already closed or broken
CloseErrs(c) == IF clients[c].open /\ ~clients[c].broken THEN {FALSE} ELSE {FALSE, TRUE}

\* the transport of a client is usable
Healthy(c) == clients[c].open /\ ~clients[c].broken

Ret(op, arg, err, client) == [op |-> op, arg |-> arg, err |-> err, client |-> client]

\* ------------------------------------------------------------------- Init
Init ==
    /\ build \in Builds
    /\ connections = <<>>
    /\ clients = <<>>
    /\ dialed = {}
    /\ slept = 0
    /\ ret = Ret("NewApp", NoString, "nil", 0)
    /\ sessions = <<>>
    /\ activeSessions = <<>>
    /\ stops = {}
    /\ cleared = <<>>
    /\ chunks = 0
    /\ activeForwards = <<>>
    /\ heap = <<>>
    /\ listed = {}
    /\ listeners = <<>>
    /\ pairs = <<>>
    /\ panicked = FALSE
    /\ localFiles = <<>>
    /\ remoteFiles = <<>>
    /\ transfers = <<>>
    /\ tasks = [t \in 1..MaxTasks |-> [op |-> "idle", pc |-> 0, at |-> "idle"]]
    /\ mutex = [m \in {"pool", "sessions", "forwards", "scm"} |-> 0]
    /\ historyFiles = <<>>
    /\ added = <<>>

\* ------------------------------------------------------- connection pool
\* a pool entry stamped LastUsed = time.Now()
Entry(c) == [Client |-> c, idle |-> 0]

\* ConnectSSHWithHostKeyCheck, up to and including ssh.Dial (app.go:150-201):
\* validation, authentication set-up and the dial all happen before the pool
\* lock is taken
ConnectValidate(cfg) ==
    IF cfg.Name = NoString \/ cfg.Host = NoString \/ cfg.Username = NoString
    THEN "missing required fields"
    ELSE IF cfg.Password # NoString THEN "nil"
    ELSE IF cfg.SSHKeyPath # NoString
         THEN (IF KeyFileOk(cfg.SSHKeyPath) THEN "nil" ELSE "failed to read SSH key")
    ELSE "no authentication method"

\* a connect that drops the profile's pool entry when the dial fails
ConnectDialEvicts(cfg) ==
    /\ build = "root"
    /\ \/ /\ ConnectValidate(cfg) # "nil"
          /\ ret' = Ret("ConnectSSHWithHostKeyCheck", cfg.Name, ConnectValidate(cfg), 0)
          /\ UNCHANGED <<clients, dialed, connections>>
       \/ /\ ConnectValidate(cfg) = "nil"
          /\ ret' = Ret("ConnectSSHWithHostKeyCheck", cfg.Name, "failed to connect", 0)
          /\ connections' = [k \in DOMAIN connections \ {cfg.Name} |-> connections[k]]
          /\ UNCHANGED <<clients, dialed>>
       \/ /\ ConnectValidate(cfg) = "nil"
          /\ Len(clients) < MaxDials
          /\ clients' = Append(clients, NewClient(cfg.Name))
          /\ dialed' = dialed \cup {[Name |-> cfg.Name, Client |-> Len(clients) + 1]}
          /\ UNCHANGED <<ret, connections>>
    /\ UNCHANGED <<build, histVars, lockVars, xferVars, fwdVars, slept>>
    /\ UNCHANGED sessVars

ConnectDial(cfg) ==
    /\ build = "root"
    /\ \/ /\ ConnectValidate(cfg) # "nil"
          /\ ret' = Ret("ConnectSSHWithHostKeyCheck", cfg.Name, ConnectValidate(cfg), 0)
          /\ UNCHANGED <<clients, dialed>>
       \/ /\ ConnectValidate(cfg) = "nil"
          /\ ret' = Ret("ConnectSSHWithHostKeyCheck", cfg.Name, "failed to connect", 0)
          /\ UNCHANGED <<clients, dialed>>
       \/ /\ ConnectValidate(cfg) = "nil"
          /\ Len(clients) < MaxDials
          /\ clients' = Append(clients, NewClient(cfg.Name))
          /\ dialed' = dialed \cup {[Name |-> cfg.Name, Client |-> Len(clients) + 1]}
          /\ UNCHANGED ret
    /\ UNCHANGED <<build, histVars, lockVars, xferVars, fwdVars, connections, slept>>
    /\ UNCHANGED sessVars

\* ConnectSSHWithHostKeyCheck, from "Store the connection" on (app.go:203-220)
StoreConnection(conns, name, c) == Put(conns, name, Entry(c))

ConnectStore(d) ==
    /\ d \in dialed
    /\ connections' = StoreConnection(connections, d.Name, d.Client)
    /\ dialed' = dialed \ {d}
    /\ ret' = Ret("ConnectSSHWithHostKeyCheck", d.Name, "nil", d.Client)
    /\ UNCHANGED <<build, histVars, lockVars, xferVars, fwdVars, clients, slept>>
    /\ UNCHANGED sessVars

\* a hit that leaves LastUsed alone
GetConnectionHitStale(conns, key) == conns

\* SSHConnectionPool.GetConnection (sshconnection.go:32-54), the whole body
\* under p.mu; reached through getSSHClient and, in artifacts, ConnectSSH
GetConnectionHit(conns, key) == [conns EXCEPT ![key].idle = 0]

GetConnection(profile) ==
    LET key == PoolKey(profile, Address(profile)) IN
    /\ IF key \in DOMAIN connections
       THEN /\ connections' = GetConnectionHit(connections, key)
            /\ ret' = Ret("GetConnection", profile, "nil", connections[key].Client)
            /\ UNCHANGED clients
       ELSE \/ /\ ret' = Ret("GetConnection", profile, "failed to connect", 0)
               /\ UNCHANGED <<connections, clients>>
            \/ /\ Len(clients) < MaxDials
               /\ clients' = Append(clients, NewClient(profile))
               /\ connections' = StoreConnection(connections, key, Len(clients) + 1)
               /\ ret' = Ret("GetConnection", profile, "nil", Len(clients) + 1)
    /\ UNCHANGED <<build, histVars, lockVars, xferVars, fwdVars, dialed, slept>>
    /\ UNCHANGED sessVars

\* SSHConnectionPool.CloseConnection (sshconnection.go:56-70); artifacts'
\* DisconnectSSH calls it with the address of the profile's config
CloseConnection(profile) ==
    LET key == PoolKey(profile, Address(profile)) IN
    /\ IF key \in DOMAIN connections
       THEN \E err \in CloseErrs(connections[key].Client) :
              /\ clients' = CloseClient(clients, connections[key].Client)
              /\ IF err
                 THEN /\ ret' = Ret("CloseConnection", profile, "failed to close connection", 0)
                      /\ UNCHANGED connections
                 ELSE /\ ret' = Ret("CloseConnection", profile, "nil", 0)
                      /\ connections' = Delete(connections, key)
       ELSE /\ ret' = Ret("CloseConnection", profile, "nil", 0)
            /\ UNCHANGED <<connections, clients>>
    /\ UNCHANGED <<build, histVars, lockVars, xferVars, fwdVars, dialed, slept>>
    /\ UNCHANGED sessVars

\* App.DisconnectSSH of the root program (app.go:119-135)
DisconnectAbsent(name) == Ret("DisconnectSSH", name, "no active connection found", 0)

DisconnectSSH(name) ==
    /\ build = "root"
    /\ IF name \in DOMAIN connections
       THEN \E err \in CloseErrs(connections[name].Client) :
              /\ clients' = CloseClient(clients, connections[name].Client)
              /\ IF err
                 THEN /\ ret' = Ret("DisconnectSSH", name, "failed to close connection", 0)
                      /\ UNCHANGED connections
                 ELSE /\ ret' = Ret("DisconnectSSH", name, "nil", 0)
                      /\ connections' = Delete(connections, name)
       ELSE /\ ret' = DisconnectAbsent(name)
            /\ UNCHANGED <<connections, clients>>
    /\ UNCHANGED <<build, histVars, lockVars, xferVars, fwdVars, dialed, slept>>
    /\ UNCHANGED sessVars

\* App.closeAllConnections, run by shutdown (app.go:297-300, 404-416)
closeAllConnections ==
    /\ build = "root"
    /\ clients' = [c \in DOMAIN clients |->
                     IF \E k \in DOMAIN connections : connections[k].Client = c
                     THEN [clients[c] EXCEPT !.open = FALSE] ELSE clients[c]]
    /\ connections' = <<>>
    /\ ret' = Ret("shutdown", NoString, "nil", 0)
    /\ UNCHANGED <<build, histVars, lockVars, xferVars, fwdVars, dialed, slept>>
    /\ UNCHANGED sessVars

\* cleanupIdleConnections (sshconnection.go:72-85): one pass of the loop,
\* taken when time.Sleep(p.maxIdleTime) has elapsed.  Only
\* NewSSHConnectionPool starts the task (sshconnection.go:27), and only
\* NewApp of artifacts/main.go calls NewSSHConnectionPool.
SweeperStarted == build = "artifacts"

Expired(conn) == conn.idle > IdleTicks

cleanupIdleConnections ==
    /\ SweeperStarted
    /\ slept >= IdleTicks
    /\ clients' = [c \in DOMAIN clients |->
                     IF \E k \in DOMAIN connections :
                          connections[k].Client = c /\ Expired(connections[k])
                     THEN [clients[c] EXCEPT !.open = FALSE] ELSE clients[c]]
    /\ connections' = [k \in {x \in DOMAIN connections : ~Expired(connections[x])}
                         |-> connections[k]]
    /\ slept' = 0
    /\ UNCHANGED <<build, histVars, lockVars, xferVars, fwdVars, dialed, ret>>
    /\ UNCHANGED sessVars

\* App.GetActiveConnections: the root program returns the map keys
\* (app.go:138-147), artifacts/main.go cuts each key at its first "-"
\* (artifacts/main.go:233-243)
GetActiveConnections ==
    IF build = "root"
    THEN DOMAIN connections
    ELSE {Prefix(key, Index(key, "-")) : key \in DOMAIN connections}

\* ------------------------------------------------------------ environment
\* one tick of time passes
Tick ==
    /\ connections' = [k \in DOMAIN connections |->
                         [connections[k] EXCEPT !.idle = Min(@ + 1, IdleTicks + 1)]]
    /\ slept' = Min(slept + 1, IdleTicks)
    /\ UNCHANGED <<build, histVars, lockVars, xferVars, fwdVars, clients, dialed, ret>>
    /\ UNCHANGED sessVars

\* the transport of a client fails or is closed by the remote side
RemoteFail(c) ==
    /\ c \in DOMAIN clients
    /\ clients[c].open /\ ~clients[c].broken
    /\ clients' = [clients EXCEPT ![c].broken = TRUE]
    /\ UNCHANGED <<build, histVars, lockVars, xferVars, fwdVars, connections, dialed, slept, ret>>
    /\ UNCHANGED sessVars

\* ------------------------------------------------------------------- Next
Next ==
    \/ \E cfg \in SSHConfigs : ConnectDial(cfg)
    \/ \E d \in dialed : ConnectStore(d)
    \/ \E p \in Profiles : GetConnection(p)
    \/ \E p \in Profiles : CloseConnection(p)
    \/ \E p \in Profiles : DisconnectSSH(p)
    \/ closeAllConnections
    \/ cleanupIdleConnections
    \/ Tick

Spec == Init /\ [][Next]_vars

\* the pool together with transport failures
HealthNext ==
    \/ Next
    \/ \E c \in DOMAIN clients : RemoteFail(c)

HealthSpec == Init /\ [][HealthNext]_vars

\* fairness the scheduling gives: time passes, and a started sweeper task
\* loops forever
FairSpec == Spec /\ WF_vars(Tick) /\ WF_vars(cleanupIdleConnections)

\* ----------------------------------------------------------------- claims
\* the profile names that were connected and not since released or swept:
\* the profiles the entries of the pool were dialed for
ConnectedProfiles == {clients[connections[k].Client].profile : k \in DOMAIN connections}

\* every key the pool can hold
AllKeys == Profiles \cup {PoolKey(p, Address(p)) : p \in Profiles}

\* the pool key an acquire call for a profile uses
AcquireKey(r) ==
    IF r.op = "GetConnection" THEN PoolKey(r.arg, Address(r.arg)) ELSE r.arg

AcquireReturned(k) ==
    /\ ret' # ret
    /\ ret'.op \in {"GetConnection", "ConnectSSHWithHostKeyCheck"}
    /\ ret'.err = "nil"
    /\ AcquireKey(ret') = k

\* C1: an acquire/connect for a key that is already pooled returns the
\* pooled connection and leaves it stored: it neither dials nor replaces it.
C1_AcquireReusesConnection ==
    [][\A k \in DOMAIN connections :
          AcquireReturned(k) =>
             /\ ret'.client = connections[k].Client
             /\ connections'[k].Client = connections[k].Client]_vars

\* C2: for every profile at most one connection dialed for it is open.  A
\* connection that connect has dialed but not yet stored is not counted, so
\* this is the claim with its most favourable reading.
InFlight == {d.Client : d \in dialed}

LiveFor(p) == {c \in DOMAIN clients : clients[c].profile = p /\ clients[c].open /\ c \notin InFlight}

C2_AtMostOneLivePerProfile == \A p \in Profiles : Cardinality(LiveFor(p)) <= 1

\* C3: a pooled connection that is idle beyond the threshold is eventually
\* closed and removed by the sweep (unless it is released or used again).
C3_IdleEventuallySwept ==
    \A k \in AllKeys :
       (k \in DOMAIN connections /\ Expired(connections[k]))
          ~> (k \notin DOMAIN connections \/ ~Expired(connections[k]))

\* C4: releasing a key that is not in the pool returns no error and leaves
\* the pool unchanged.
C4_ReleaseIdempotent ==
    [][\A name \in Profiles :
          (DisconnectSSH(name) /\ name \notin DOMAIN connections) =>
             (ret'.err = "nil" /\ connections' = connections)]_vars

\* C5: an acquire that succeeds returns a healthy connection: a stored
\* connection whose transport failed is not handed out again.
C5_AcquireReturnsHealthy ==
    [][\A p \in Profiles :
          (GetConnection(p) /\ ret'.err = "nil") =>
             (clients'[ret'.client].open /\ ~clients'[ret'.client].broken)]_vars

\* C6: listActive() is exactly the set of connected profile names.
C6_ListActiveIsConnectedProfiles == GetActiveConnections = ConnectedProfiles

\* =========================================================== sessions
\* commands the frontend sends
Ls == <<"l", "s">>
ClearUpper == <<" ", "C", "l", "e", "a", "r", " ">>
Commands == {Ls, <<"c", "l", "e", "a", "r">>, ClearUpper}

\* strings.ToLower, on the letters the commands use
LowerOf(ch) == IF ch = "C" THEN "c" ELSE ch
ToLower(str) == [i \in 1..Len(str) |-> LowerOf(str[i])]

\* strings.TrimSpace
RECURSIVE TrimLeft(_)
TrimLeft(str) ==
    IF str # <<>> /\ Head(str) = " " THEN TrimLeft(Tail(str)) ELSE str

RECURSIVE TrimRight(_)
TrimRight(str) ==
    IF str # <<>> /\ str[Len(str)] = " "
    THEN TrimRight(SubSeq(str, 1, Len(str) - 1)) ELSE str

TrimSpace(str) == TrimRight(TrimLeft(str))

\* strings.TrimSpace(strings.ToLower(command)) == "clear" (cmdrunner.go:139)
IsClear(command) == TrimSpace(ToLower(command)) = <<"c", "l", "e", "a", "r">>

Streams == {"stdout", "stderr"}

Event(type, data) == [type |-> type, data |-> data]

\* one invocation that opened a sub-channel: its position (pc), the state of
\* its sub-channel and of the remote command, its two reader tasks, and the
\* events emitted for it, in order
NewSessionRec(profile, client, pc) ==
    [profile |-> profile, client |-> client, pc |-> pc,
     open |-> TRUE, exited |-> "none", waitErr |-> "none", result |-> "none",
     rd |-> [r \in Streams |-> [pc |-> "idle", n |-> 0]],
     events |-> <<>>, cancelled |-> FALSE]

\* session.Shell() / session.Start() has succeeded: the readers exist
Started(s) == sessions[s].rd["stdout"].pc # "idle"

\* the sub-channel of a session can carry data: it is open at this end and
\* its transport is usable
ChannelUp(s) == sessions[s].open /\ Healthy(sessions[s].client)

\* an emit that puts the event in front of the earlier ones
EmitFirst(s, ev) == [sessions EXCEPT ![s].events = <<ev>> \o @]

Emit(s, ev) == [sessions EXCEPT ![s].events = Append(@, ev)]

\* ExecuteInteractiveCommand of the root program, "clear" (cmdrunner.go:138-142)
ExecuteClear(profile, command) ==
    /\ build = "root"
    /\ IsClear(command)
    /\ Len(cleared) < MaxClears
    /\ cleared' = Append(cleared, profile)
    /\ ret' = Ret("ExecuteInteractiveCommand", profile, "nil", 0)
    /\ UNCHANGED <<build, histVars, lockVars, xferVars, fwdVars, connections, clients, dialed, slept, sessions,
                   activeSessions, stops, chunks>>

\* ExecuteInteractiveCommand of the root program, the pool lookup and
\* conn.Client.NewSession() (cmdrunner.go:144-156): NewSession succeeds only
\* on a usable transport, and the server may refuse it
ExecuteStart(profile, command) ==
    /\ build = "root"
    /\ ~IsClear(command)
    /\ IF profile \notin DOMAIN connections
       THEN /\ ret' = Ret("ExecuteInteractiveCommand", profile, "no active connection found", 0)
            /\ UNCHANGED sessions
       ELSE \/ /\ ret' = Ret("ExecuteInteractiveCommand", profile, "failed to create session", 0)
               /\ UNCHANGED sessions
            \/ /\ Healthy(connections[profile].Client)
               /\ Len(sessions) < MaxSessions
               /\ sessions' = Append(sessions,
                     NewSessionRec(profile, connections[profile].Client, "register"))
               /\ UNCHANGED ret
    /\ UNCHANGED <<build, histVars, lockVars, xferVars, fwdVars, connections, clients, dialed, slept, activeSessions,
                   stops, cleared, chunks>>

\* ExecuteInteractiveCommand of artifacts/main.go, getSSHClient (which dials
\* through GetConnection when the key is absent) and client.NewSession()
\* (artifacts/main.go:409-418); no command is treated specially
ArtExecuteStart(profile, command) ==
    /\ build = "artifacts"
    /\ LET key == PoolKey(profile, Address(profile))
           hit == key \in DOMAIN connections
           c == IF hit THEN connections[key].Client ELSE Len(clients) + 1
           cls == IF hit THEN clients ELSE Append(clients, NewClient(profile))
       IN \/ /\ ~hit
             /\ ret' = Ret("ExecuteInteractiveCommand", profile, "failed to get SSH client", 0)
             /\ UNCHANGED <<connections, clients, sessions>>
          \/ /\ hit \/ Len(clients) < MaxDials
             /\ clients' = cls
             /\ connections' = IF hit THEN GetConnectionHit(connections, key)
                               ELSE StoreConnection(connections, key, c)
             /\ \/ /\ ret' = Ret("ExecuteInteractiveCommand", profile,
                                 "failed to create session", 0)
                   /\ UNCHANGED sessions
                \/ /\ cls[c].open /\ ~cls[c].broken
                   /\ Len(sessions) < MaxSessions
                   /\ sessions' = Append(sessions, NewSessionRec(profile, c, "start"))
                   /\ UNCHANGED ret
    /\ UNCHANGED <<build, histVars, lockVars, xferVars, fwdVars, dialed, slept, activeSessions, stops, cleared, chunks>>

\* the first step of a call of ExecuteInteractiveCommand, in either program
ExecuteInteractiveCommand(profile, command) ==
    \/ ExecuteClear(profile, command)
    \/ ExecuteStart(profile, command)
    \/ ArtExecuteStart(profile, command)

\* activeSessions[profile] = session (cmdrunner.go:158-160)
Register(s) ==
    /\ build = "root"
    /\ sessions[s].pc = "register"
    /\ activeSessions' = Put(activeSessions, sessions[s].profile, s)
    /\ sessions' = [sessions EXCEPT ![s].pc = "shell"]
    /\ UNCHANGED <<build, histVars, lockVars, xferVars, fwdVars, connections, clients, dialed, slept, ret, stops, cleared, chunks>>

\* the pipes, session.Shell() and the start of the two handleOutput tasks
\* (cmdrunner.go:169-190)
Shell(s) ==
    /\ build = "root"
    /\ sessions[s].pc = "shell"
    /\ \/ sessions' = [sessions EXCEPT ![s].pc = "deferred",
                                        ![s].result = "failed to start shell"]
       \/ /\ ChannelUp(s)
          /\ sessions' = [sessions EXCEPT ![s].pc = "send",
                            ![s].rd = [r \in Streams |-> [pc |-> "read", n |-> 0]]]
    /\ UNCHANGED <<build, histVars, lockVars, xferVars, fwdVars, connections, clients, dialed, slept, ret,
                   activeSessions, stops, cleared, chunks>>

\* fmt.Fprintln(stdin, command) and stdin.Close() (cmdrunner.go:192-197): the
\* write fails when the sub-channel is down or the remote end has gone
SendCommand(s) ==
    /\ build = "root"
    /\ sessions[s].pc = "send"
    /\ \/ /\ ~ChannelUp(s) \/ sessions[s].exited # "none"
          /\ sessions' = [sessions EXCEPT ![s].pc = "deferred",
                                          ![s].result = "failed to send command"]
       \/ /\ ChannelUp(s)
          /\ sessions' = [sessions EXCEPT ![s].pc = "wait"]
    /\ UNCHANGED <<build, histVars, lockVars, xferVars, fwdVars, connections, clients, dialed, slept, ret,
                   activeSessions, stops, cleared, chunks>>

\* the pipes, session.Start(command), the registration in interactiveCommands
\* and the start of the goroutine with its two streamOutput tasks
\* (artifacts/main.go:420-462); ExecuteInteractiveCommand returns here
Start(s) ==
    /\ build = "artifacts"
    /\ sessions[s].pc = "start"
    /\ \/ /\ sessions' = [sessions EXCEPT ![s].pc = "returned", ![s].open = FALSE,
                                           ![s].result = "failed to start command"]
          /\ UNCHANGED activeSessions
       \/ /\ ChannelUp(s)
          /\ activeSessions' = Put(activeSessions, sessions[s].profile, s)
          /\ sessions' = [sessions EXCEPT ![s].pc = "select", ![s].result = "nil",
                            ![s].rd = [r \in Streams |-> [pc |-> "select", n |-> 0]]]
    /\ UNCHANGED <<build, histVars, lockVars, xferVars, fwdVars, connections, clients, dialed, slept, ret, stops, cleared, chunks>>

\* the goroutine's select (artifacts/main.go:464-471): the context is
\* cancelled, or one of the two done channels is closed
Select(s) ==
    /\ build = "artifacts"
    /\ sessions[s].pc = "select"
    /\ \/ /\ sessions[s].cancelled
          /\ sessions' = [sessions EXCEPT ![s].pc = "deferred"]
       \/ /\ \E r \in Streams : sessions[s].rd[r].pc = "done"
          /\ sessions' = [sessions EXCEPT ![s].pc = "await"]
    /\ UNCHANGED <<build, histVars, lockVars, xferVars, fwdVars, connections, clients, dialed, slept, ret,
                   activeSessions, stops, cleared, chunks>>

\* both done channels signalled: handleOutput tasks received from
\* (cmdrunner.go:201-202), streamOutput tasks closed (artifacts/main.go:467-470)
DrainsDone(rd) == \A r \in Streams : rd[r].pc = "done"

\* <-stderrDone / <-stdoutDone inside the select case (artifacts/main.go:467-470)
Await(s) ==
    /\ build = "artifacts"
    /\ sessions[s].pc = "await"
    /\ DrainsDone(sessions[s].rd)
    /\ sessions' = [sessions EXCEPT ![s].pc = "wait"]
    /\ UNCHANGED <<build, histVars, lockVars, xferVars, fwdVars, connections, clients, dialed, slept, ret,
                   activeSessions, stops, cleared, chunks>>

\* what session.Wait() returns: nil for exit status 0, *ssh.ExitError for a
\* non-zero status, another error when the channel went down without one
WaitResult(sess) ==
    IF sess.exited = "zero" THEN "nil"
    ELSE IF sess.exited = "nonzero" THEN "exit"
    ELSE "failed"

\* err = session.Wait() (cmdrunner.go:199, artifacts/main.go:473): it returns
\* once the remote command has exited or the sub-channel is down
Wait(s) ==
    /\ sessions[s].pc = "wait"
    /\ sessions[s].exited # "none" \/ ~ChannelUp(s)
    /\ sessions' = [sessions EXCEPT ![s].waitErr = WaitResult(sessions[s]),
                      ![s].pc = IF build = "root" THEN "drain" ELSE "emit"]
    /\ UNCHANGED <<build, histVars, lockVars, xferVars, fwdVars, connections, clients, dialed, slept, ret,
                   activeSessions, stops, cleared, chunks>>

\* <-outputDone (cmdrunner.go:201-202) meeting done <- true of one reader
\* (cmdrunner.go:218)
RecvDone(s, r) ==
    /\ build = "root"
    /\ sessions[s].pc = "drain"
    /\ sessions[s].rd[r].pc = "send"
    /\ LET rd == [sessions[s].rd EXCEPT ![r].pc = "done"] IN
         sessions' = [sessions EXCEPT ![s].rd = rd,
                        ![s].pc = IF DrainsDone(rd) THEN "emit" ELSE "drain"]
    /\ UNCHANGED <<build, histVars, lockVars, xferVars, fwdVars, connections, clients, dialed, slept, ret,
                   activeSessions, stops, cleared, chunks>>

\* a terminal event that reports every result as success
TerminalEventInfoOnly(waitErr) == Event("info", "finished")

\* the terminal event chosen from Wait's result (cmdrunner.go:204-212,
\* artifacts/main.go:473-485): type error with the error's text, or info
TerminalEvent(waitErr) ==
    IF waitErr = "nil" THEN Event("info", "finished") ELSE Event("error", waitErr)

EmitTerminal(s) ==
    /\ sessions[s].pc = "emit"
    /\ sessions' = [Emit(s, TerminalEvent(sessions[s].waitErr)) EXCEPT
                      ![s].pc = "deferred", ![s].result = "nil"]
    /\ UNCHANGED <<build, histVars, lockVars, xferVars, fwdVars, connections, clients, dialed, slept, ret,
                   activeSessions, stops, cleared, chunks>>

\* the deferred calls: session.Close() and delete(activeSessions, profile)
\* (cmdrunner.go:162-167); delete(interactiveCommands, profile) and
\* session.Close() (artifacts/main.go:451-456)
Deferred(s) ==
    /\ sessions[s].pc = "deferred"
    /\ sessions' = [sessions EXCEPT ![s].open = FALSE, ![s].pc = "returned"]
    /\ activeSessions' = Delete(activeSessions, sessions[s].profile)
    /\ UNCHANGED <<build, histVars, lockVars, xferVars, fwdVars, connections, clients, dialed, slept, ret, stops, cleared, chunks>>

\* where a reader goes after a read with n > 0: handleOutput reads again
\* (cmdrunner.go:221-222), streamOutput checks ctx.Done() first
\* (artifacts/main.go:494-499)
ReaderLoop == IF build = "root" THEN "read" ELSE "select"

\* where a reader goes when its loop ends: handleOutput blocks in
\* done <- true (cmdrunner.go:218), streamOutput closes done
\* (artifacts/main.go:492)
ReaderEnd == IF build = "root" THEN "send" ELSE "done"

\* streamOutput's select on ctx.Done() (artifacts/main.go:495-498)
ReaderSelect(s, r) ==
    /\ build = "artifacts"
    /\ sessions[s].rd[r].pc = "select"
    /\ sessions' = [sessions EXCEPT ![s].rd[r].pc =
                      IF sessions[s].cancelled THEN "done" ELSE "read"]
    /\ UNCHANGED <<build, histVars, lockVars, xferVars, fwdVars, connections, clients, dialed, slept, ret,
                   activeSessions, stops, cleared, chunks>>

\* r.Read returning n > 0 and no error (cmdrunner.go:222-225,
\* artifacts/main.go:499-506)
ReadChunk(s, r) ==
    /\ sessions[s].rd[r].pc = "read"
    /\ chunks < MaxChunks
    /\ chunks' = chunks + 1
    /\ sessions' = [Emit(s, Event(r, sessions[s].rd[r].n + 1)) EXCEPT
                      ![s].rd[r].n = @ + 1, ![s].rd[r].pc = ReaderLoop]
    /\ UNCHANGED <<build, histVars, lockVars, xferVars, fwdVars, connections, clients, dialed, slept, ret,
                   activeSessions, stops, cleared>>

\* r.Read returning io.EOF (cmdrunner.go:226-231, artifacts/main.go:499-516):
\* the stream ends when the remote command has exited or the sub-channel is
\* down
ReadEOF(s, r) ==
    /\ sessions[s].rd[r].pc = "read"
    /\ sessions[s].exited # "none" \/ ~ChannelUp(s)
    /\ sessions' = [sessions EXCEPT ![s].rd[r].pc = ReaderEnd]
    /\ UNCHANGED <<build, histVars, lockVars, xferVars, fwdVars, connections, clients, dialed, slept, ret,
                   activeSessions, stops, cleared, chunks>>

\* r.Read returning n > 0 together with an error other than io.EOF
\* (cmdrunner.go:223-229, artifacts/main.go:499-516): the window adjustment
\* that follows a read of buffered data fails on a transport that is closed
\* or broken
ReadErr(s, r) ==
    /\ sessions[s].rd[r].pc = "read"
    /\ ~Healthy(sessions[s].client)
    /\ chunks < MaxChunks
    /\ chunks' = chunks + 1
    /\ sessions' = [sessions EXCEPT
                      ![s].events = @ \o <<Event(r, sessions[s].rd[r].n + 1),
                                           Event("error", "read")>>,
                      ![s].rd[r].n = @ + 1, ![s].rd[r].pc = ReaderEnd]
    /\ UNCHANGED <<build, histVars, lockVars, xferVars, fwdVars, connections, clients, dialed, slept, ret,
                   activeSessions, stops, cleared>>

\* the remote command exits with a status
ExitCodes == {"zero", "nonzero"}

CmdExit(s, code) ==
    /\ Started(s)
    /\ sessions[s].exited = "none"
    /\ ChannelUp(s)
    /\ sessions' = [sessions EXCEPT ![s].exited = code]
    /\ UNCHANGED <<build, histVars, lockVars, xferVars, fwdVars, connections, clients, dialed, slept, ret,
                   activeSessions, stops, cleared, chunks>>

\* StopInteractiveCommand, registry lookup (cmdrunner.go:236-242,
\* artifacts/main.go:521-528)
StopRec(profile, s) == [profile |-> profile, session |-> s, pc |-> "signal"]

\* a lookup that takes the latest invocation whether it is registered or not
StopLookupAnySession(profile) ==
    /\ IF sessions = <<>>
       THEN /\ ret' = Ret("StopInteractiveCommand", profile, "no active session found", 0)
            /\ UNCHANGED stops
       ELSE /\ Cardinality(stops) < MaxStops
            /\ stops' = stops \cup {StopRec(profile, Len(sessions))}
            /\ UNCHANGED ret
    /\ UNCHANGED <<build, histVars, lockVars, xferVars, fwdVars, connections, clients, dialed, slept, sessions,
                   activeSessions, cleared, chunks>>

StopLookup(profile) ==
    /\ IF profile \notin DOMAIN activeSessions
       THEN /\ ret' = Ret("StopInteractiveCommand", profile, "no active session found", 0)
            /\ UNCHANGED stops
       ELSE /\ Cardinality(stops) < MaxStops
            /\ stops' = stops \cup {StopRec(profile, activeSessions[profile])}
            /\ UNCHANGED ret
    /\ UNCHANGED <<build, histVars, lockVars, xferVars, fwdVars, connections, clients, dialed, slept, sessions,
                   activeSessions, cleared, chunks>>

\* session.Signal(ssh.SIGINT): in the root program an error ends the call
\* (cmdrunner.go:245-250); artifacts/main.go logs it, falls through the
\* select's default case and goes on (artifacts/main.go:530-543)
StopSignal(k) ==
    /\ k.pc = "signal"
    /\ IF build = "root"
       THEN \/ /\ ~ChannelUp(k.session) \/ sessions[k.session].exited # "none"
               /\ stops' = stops \ {k}
               /\ ret' = Ret("StopInteractiveCommand", k.profile, "failed to send SIGINT", 0)
            \/ /\ ChannelUp(k.session)
               /\ stops' = (stops \ {k}) \cup {[k EXCEPT !.pc = "force"]}
               /\ UNCHANGED ret
       ELSE /\ stops' = (stops \ {k}) \cup {[k EXCEPT !.pc = "cancel"]}
            /\ UNCHANGED ret
    /\ UNCHANGED <<build, histVars, lockVars, xferVars, fwdVars, connections, clients, dialed, slept, sessions,
                   activeSessions, cleared, chunks>>

\* after the sleep: close and unregister if the profile still has an entry
\* (cmdrunner.go:252-258)
StopForce(k) ==
    /\ build = "root"
    /\ k.pc = "force"
    /\ IF k.profile \in DOMAIN activeSessions
       THEN /\ sessions' = [sessions EXCEPT ![k.session].open = FALSE]
            /\ activeSessions' = Delete(activeSessions, k.profile)
       ELSE UNCHANGED <<sessions, activeSessions>>
    /\ stops' = (stops \ {k}) \cup {[k EXCEPT !.pc = "emit"]}
    /\ UNCHANGED <<build, histVars, lockVars, xferVars, fwdVars, connections, clients, dialed, slept, ret, cleared, chunks>>

\* ic.Cancel() and delete(interactiveCommands, profile)
\* (artifacts/main.go:545-549)
StopCancel(k) ==
    /\ build = "artifacts"
    /\ k.pc = "cancel"
    /\ sessions' = [sessions EXCEPT ![k.session].cancelled = TRUE]
    /\ activeSessions' = Delete(activeSessions, k.profile)
    /\ stops' = (stops \ {k}) \cup {[k EXCEPT !.pc = "emit"]}
    /\ UNCHANGED <<build, histVars, lockVars, xferVars, fwdVars, connections, clients, dialed, slept, ret, cleared, chunks>>

\* a.emitOutput(profile, "info", "Command stopped") (cmdrunner.go:260-261,
\* artifacts/main.go:551-557); the event is recorded with the session the
\* call had looked up
StopEmit(k) ==
    /\ k.pc = "emit"
    /\ sessions' = Emit(k.session, Event("info", "stopped"))
    /\ stops' = stops \ {k}
    /\ ret' = Ret("StopInteractiveCommand", k.profile, "nil", 0)
    /\ UNCHANGED <<build, histVars, lockVars, xferVars, fwdVars, connections, clients, dialed, slept, activeSessions,
                   cleared, chunks>>

\* a profile with a password, as the frontend sends it
PasswordConfig(name) == SSHConfig(name, <<"h">>, <<"u">>, <<"p">>, NoString)

SessionProfiles == {<<"a">>}

\* invocations side by side: connect and execute calls in any interleaving,
\* commands that produce no output, transports that stay up
SessionNext ==
    \/ \E p \in SessionProfiles : ConnectDial(PasswordConfig(p))
    \/ \E d \in dialed : ConnectStore(d)
    \/ \E p \in SessionProfiles, cmd \in Commands : ExecuteInteractiveCommand(p, cmd)
    \/ \E s \in DOMAIN sessions : Register(s)
    \/ \E s \in DOMAIN sessions : Shell(s)
    \/ \E s \in DOMAIN sessions : SendCommand(s)
    \/ \E s \in DOMAIN sessions : Start(s)
    \/ \E s \in DOMAIN sessions : Select(s)
    \/ \E s \in DOMAIN sessions : Await(s)
    \/ \E s \in DOMAIN sessions : Wait(s)
    \/ \E s \in DOMAIN sessions, r \in Streams : RecvDone(s, r)
    \/ \E s \in DOMAIN sessions : EmitTerminal(s)
    \/ \E s \in DOMAIN sessions : Deferred(s)
    \/ \E s \in DOMAIN sessions, r \in Streams : ReaderSelect(s, r)
    \/ \E s \in DOMAIN sessions, r \in Streams : ReadEOF(s, r)
    \/ \E s \in DOMAIN sessions, code \in ExitCodes : CmdExit(s, code)

SessionSpec == Init /\ [][SessionNext]_vars

\* the first invocation of a fresh application
FirstExecute(profile, command) ==
    /\ sessions = <<>>
    /\ ExecuteStart(profile, command) \/ ArtExecuteStart(profile, command)

\* one invocation in full: its output, read errors, transport failures and
\* stop calls
StreamNext ==
    \/ \E p \in SessionProfiles : ConnectDial(PasswordConfig(p))
    \/ \E d \in dialed : ConnectStore(d)
    \/ \E c \in DOMAIN clients : RemoteFail(c)
    \/ \E p \in SessionProfiles : FirstExecute(p, Ls)
    \/ \E s \in DOMAIN sessions : Register(s)
    \/ \E s \in DOMAIN sessions : Shell(s)
    \/ \E s \in DOMAIN sessions : SendCommand(s)
    \/ \E s \in DOMAIN sessions : Start(s)
    \/ \E s \in DOMAIN sessions : Select(s)
    \/ \E s \in DOMAIN sessions : Await(s)
    \/ \E s \in DOMAIN sessions : Wait(s)
    \/ \E s \in DOMAIN sessions, r \in Streams : RecvDone(s, r)
    \/ \E s \in DOMAIN sessions : EmitTerminal(s)
    \/ \E s \in DOMAIN sessions : Deferred(s)
    \/ \E s \in DOMAIN sessions, r \in Streams : ReaderSelect(s, r)
    \/ \E s \in DOMAIN sessions, r \in Streams : ReadChunk(s, r)
    \/ \E s \in DOMAIN sessions, r \in Streams : ReadEOF(s, r)
    \/ \E s \in DOMAIN sessions, r \in Streams : ReadErr(s, r)
    \/ \E s \in DOMAIN sessions, code \in ExitCodes : CmdExit(s, code)
    \/ \E p \in SessionProfiles : StopLookup(p)
    \/ \E k \in stops : StopSignal(k)
    \/ \E k \in stops : StopForce(k)
    \/ \E k \in stops : StopCancel(k)
    \/ \E k \in stops : StopEmit(k)

StreamSpec == Init /\ [][StreamNext]_vars

\* ------------------------------------------------------- session claims
\* a session is running: sub-channel open and command not yet finished
Running(s) ==
    /\ Started(s)
    /\ sessions[s].open
    /\ sessions[s].exited = "none"

RunningFor(p) == {s \in DOMAIN sessions : sessions[s].profile = p /\ Running(s)}

\* C7: in every reachable state every profile has at most one running
\* session (sub-channel open, command not finished).
C7_AtMostOneRunningPerProfile ==
    \A p \in SessionProfiles : Cardinality(RunningFor(p)) <= 1

\* C8: execute on a profile that has a running session fails with a busy
\* error, opens no sub-channel and leaves the registry as it is.
C8_ExecuteOnBusyRejected ==
    [][\A p \in SessionProfiles, cmd \in Commands :
          (~IsClear(cmd) /\ RunningFor(p) # {} /\ ExecuteInteractiveCommand(p, cmd)) =>
             /\ ret'.op = "ExecuteInteractiveCommand"
             /\ ret'.err = "session busy"
             /\ sessions' = sessions
             /\ activeSessions' = activeSessions]_vars

\* C9: executing clear (trimmed, any case) touches neither the pool nor a
\* sub-channel nor the registry, and emits exactly one clear event.
C9_ClearIsLocal ==
    [][\A p \in SessionProfiles, cmd \in Commands :
          (IsClear(cmd) /\ ExecuteInteractiveCommand(p, cmd)) =>
             /\ cleared' = Append(cleared, p)
             /\ UNCHANGED <<connections, clients, sessions, activeSessions>>]_vars

\* session.Wait() of the invocation returned a non-zero exit status
ExitedNonZero(s) == sessions[s].waitErr = "exit"

\* the invocation is past its terminal event
Emitted(s) == sessions[s].waitErr # "none" /\ sessions[s].pc \in {"deferred", "returned"}

ExitEvents(ev) == {i \in 1..Len(ev) : ev[i] = Event("error", "exit")}

ErrorEvents(ev) == {i \in 1..Len(ev) : ev[i].type = "error"}

OutputEvents(ev) == {i \in 1..Len(ev) : ev[i].type \in Streams}

\* the deferred calls of an invocation that exited non-zero leave the
\* profile without a registered session
IdleAfterExit ==
    \A s \in DOMAIN sessions :
       (ExitedNonZero(s) /\ sessions[s].pc = "deferred" /\ sessions'[s].pc = "returned")
          => sessions[s].profile \notin DOMAIN activeSessions'

\* C10 as stated: an invocation whose command exited non-zero emits exactly
\* one event of type error, after all its stdout and stderr events, and
\* leaves the profile without a registered session.
C10_ExactlyOneErrorEvent ==
    /\ [](\A s \in DOMAIN sessions :
            (ExitedNonZero(s) /\ Emitted(s)) =>
               LET ev == sessions[s].events IN
               /\ Cardinality(ErrorEvents(ev)) = 1
               /\ \A i \in ErrorEvents(ev), j \in OutputEvents(ev) : j < i)
    /\ [][IdleAfterExit]_vars

\* C10, amended: an invocation whose session.Wait() returned a non-zero exit
\* status emits exactly one exit error event, after all its stdout and stderr
\* events; its only other error events report failed reads (at most one per
\* reader) and come before the exit event; its deferred calls leave the
\* profile without a registered session.
C10_ExitErrorOnceAfterOutput ==
    /\ [](\A s \in DOMAIN sessions :
            ExitedNonZero(s) =>
               LET ev == sessions[s].events IN
               /\ Cardinality(ExitEvents(ev)) = (IF Emitted(s) THEN 1 ELSE 0)
               /\ \A i \in ExitEvents(ev), j \in OutputEvents(ev) : j < i
               /\ \A j \in ErrorEvents(ev) \ ExitEvents(ev) :
                     /\ ev[j] = Event("error", "read")
                     /\ \A i \in ExitEvents(ev) : j < i
               /\ Cardinality(ErrorEvents(ev) \ ExitEvents(ev)) <= Cardinality(Streams))
    /\ [][IdleAfterExit]_vars

\* an invocation that produced output on both streams, met a failed read,
\* exited non-zero and has returned
C10_Witness ==
    \E s \in DOMAIN sessions :
       /\ ExitedNonZero(s)
       /\ sessions[s].pc = "returned"
       /\ Event("error", "read") \in {sessions[s].events[i] : i \in 1..Len(sessions[s].events)}
       /\ \A r \in Streams : sessions[s].rd[r].n > 0


\* ============================================================ stop calls
\* the steps of one invocation and of its reader tasks that the scheduler
\* takes on its own
SessionStep ==
    \/ \E s \in DOMAIN sessions : Register(s)
    \/ \E s \in DOMAIN sessions : Shell(s)
    \/ \E s \in DOMAIN sessions : SendCommand(s)
    \/ \E s \in DOMAIN sessions : Start(s)
    \/ \E s \in DOMAIN sessions : Select(s)
    \/ \E s \in DOMAIN sessions : Await(s)
    \/ \E s \in DOMAIN sessions : Wait(s)
    \/ \E s \in DOMAIN sessions, r \in Streams : RecvDone(s, r)
    \/ \E s \in DOMAIN sessions : EmitTerminal(s)
    \/ \E s \in DOMAIN sessions : Deferred(s)
    \/ \E s \in DOMAIN sessions, r \in Streams : ReaderSelect(s, r)
    \/ \E s \in DOMAIN sessions, r \in Streams : ReadEOF(s, r)

\* the steps of a StopInteractiveCommand call after its lookup
StopStep ==
    \/ \E k \in stops : StopSignal(k)
    \/ \E k \in stops : StopForce(k)
    \/ \E k \in stops : StopCancel(k)
    \/ \E k \in stops : StopEmit(k)

\* one invocation and the stop calls on it: the command produces no output,
\* it may exit, and the transport may fail
StopNext ==
    \/ \E p \in SessionProfiles : ConnectDial(PasswordConfig(p))
    \/ \E d \in dialed : ConnectStore(d)
    \/ \E c \in DOMAIN clients : RemoteFail(c)
    \/ \E p \in SessionProfiles : FirstExecute(p, Ls)
    \/ \E s \in DOMAIN sessions, code \in ExitCodes : CmdExit(s, code)
    \/ \E p \in SessionProfiles : StopLookup(p)
    \/ SessionStep
    \/ StopStep

StopSpec == Init /\ [][StopNext]_vars

\* every call that has started runs on: the goroutines of an invocation and
\* a stop call past its lookup are never starved
StopFairSpec == StopSpec /\ WF_vars(SessionStep) /\ WF_vars(StopStep)

\* ------------------------------------------------------------ stop claims
\* C11: stop on a profile with no registered session fails with the
\* no-active-session error, starts no stop (no signal), emits no event and
\* leaves registry and pool unchanged.
C11_StopWithoutSessionFails ==
    [][\A p \in SessionProfiles :
          (StopLookup(p) /\ p \notin DOMAIN activeSessions) =>
             /\ ret' = Ret("StopInteractiveCommand", p, "no active session found", 0)
             /\ UNCHANGED <<stops, sessions, activeSessions, connections, clients>>]_vars

\* a stop call failed on a profile whose invocation had already returned
C11_Witness ==
    /\ ret = Ret("StopInteractiveCommand", <<"a">>, "no active session found", 0)
    /\ \E s \in DOMAIN sessions : sessions[s].pc = "returned" /\ Started(s)
    /\ stops = {}

\* the stopped event was emitted for the invocation
StoppedEvent(s) ==
    \E i \in 1..Len(sessions[s].events) : sessions[s].events[i] = Event("info", "stopped")

\* a stop call has found the invocation in the registry and is about to
\* signal it, and the invocation's command is running
StopOnRunning(s) ==
    \E k \in stops : k.session = s /\ k.pc = "signal" /\ Running(s)

\* the stop call on the invocation has done its work: the stopped event is
\* out and the profile has no registered session
StopDone(s) ==
    /\ s \in DOMAIN sessions
    /\ StoppedEvent(s)
    /\ sessions[s].profile \notin DOMAIN activeSessions

\* C12: a stop call on a running command leads to the info "stopped" event
\* and to a state in which the profile has no registered session.
C12_StopLeadsToStopped ==
    \A s \in 1..MaxSessions : StopOnRunning(s) ~> StopDone(s)

\* C13: a stop call that found a registered session ends only with the
\* stopped event emitted, the sub-channel closed and the registry entry of
\* the profile removed, also when the signal could not be sent.
C13_StopAlwaysStops ==
    [][\A k \in stops :
          (stops' = stops \ {k}) =>
             /\ \E i \in 1..Len(sessions'[k.session].events) :
                   sessions'[k.session].events[i] = Event("info", "stopped")
             /\ ~sessions'[k.session].open
             /\ k.profile \notin DOMAIN activeSessions']_vars

\* the events that end an invocation: finished, exit error, failure, stopped
TerminalEvents(ev) ==
    {i \in 1..Len(ev) : ev[i] \in {Event("info", "finished"), Event("error", "exit"),
                                   Event("error", "failed"), Event("info", "stopped")}}

\* the invocation started its remote command: Start succeeded, or the shell
\* was started and the command line was written to it
CommandStarted(s) ==
    IF build = "root" THEN sessions[s].pc \in {"wait", "drain", "emit"} \/ sessions[s].waitErr # "none"
    ELSE Started(s)

\* C14: an invocation that started a remote command never has more than one
\* terminal event, and once it has returned and no stop call on it is in
\* flight it has exactly one.
C14_ExactlyOneTerminalEvent ==
    \A s \in DOMAIN sessions :
       CommandStarted(s) =>
          /\ Cardinality(TerminalEvents(sessions[s].events)) <= 1
          /\ (sessions[s].pc = "returned" /\ ~\E k \in stops : k.session = s)
                => Cardinality(TerminalEvents(sessions[s].events)) = 1

\* ---------------------------------------------------------- stream order
\* the events of one stream of an invocation, in the order of emission
StreamEvents(s, r) == SelectSeq(sessions[s].events, LAMBDA e : e.type = r)

\* C15: within one stream of one session the emitted events are exactly the
\* non-empty reads of that stream, each tagged with the stream, in read
\* order: none lost, none duplicated, none reordered.
C15_StreamOrderPreserved ==
    \A s \in DOMAIN sessions, r \in Streams :
       StreamEvents(s, r) = [i \in 1..sessions[s].rd[r].n |-> Event(r, i)]

\* an invocation that has returned after two reads of one stream and a
\* stop call
C15_Witness ==
    \E s \in DOMAIN sessions, r \in Streams :
       /\ sessions[s].rd[r].n = 2
       /\ sessions[s].pc = "returned"
       /\ StoppedEvent(s)

\* -------------------------------------------------------- port forwarding
LocalPorts == {8090, 8091}
RemotePorts == {9090, 9091}

\* &PortForward{LocalPort, RemotePort, IsRemoteToLocal} (portfarward.go:11-15)
PortForwardRec(localPort, remotePort, isRemoteToLocal) ==
    [LocalPort |-> localPort, RemotePort |-> remotePort,
     IsRemoteToLocal |-> isRemoteToLocal]

\* a listener together with the accept loop that owns it
NewListener(profile, client, forward) ==
    [profile |-> profile, client |-> client, forward |-> forward,
     open |-> TRUE, loop |-> "accept"]

\* net.Listen("tcp", "localhost:<port>") cannot bind a port that an open
\* listener of this process holds
LocalPortFree(port) ==
    \A l \in DOMAIN listeners :
       ~(listeners[l].open /\ ~listeners[l].forward.IsRemoteToLocal
           /\ listeners[l].forward.LocalPort = port)

\* the server refuses a listen request for a port it already forwards; it
\* forwards a port for as long as the transport that asked for it is up
RemotePortFree(port) ==
    \A l \in DOMAIN listeners :
       ~(listeners[l].open /\ listeners[l].forward.IsRemoteToLocal
           /\ listeners[l].forward.RemotePort = port /\ Healthy(listeners[l].client))

\* conn.Client.Listen / net.Listen can succeed (portfarward.go:34-40)
CanListen(c, forward) ==
    IF forward.IsRemoteToLocal
    THEN Healthy(c) /\ RemotePortFree(forward.RemotePort)
    ELSE LocalPortFree(forward.LocalPort)

\* A Go slice is a view [array, len, cap] on a backing array of the heap;
\* slices that name the same array share its cells.  The nil slice, which
\* a map yields for an absent key, has no array.
NilSlice == [array |-> 0, len |-> 0, cap |-> 0]

\* a cell of a backing array that no append has written yet
NoForward == [LocalPort |-> 0, RemotePort |-> 0, IsRemoteToLocal |-> FALSE]

\* the elements a slice shows
Elems(h, slice) == [i \in 1..slice.len |-> h[slice.array][i]]

\* the capacity append gives a slice of pointers that it has to move: 1
\* for an empty one, double otherwise
GrowCap(cap) == IF cap = 0 THEN 1 ELSE 2 * cap

\* the slice append(slice, x) returns: the same array while the capacity
\* lasts, a new one otherwise
AppendSlice(h, slice, x) ==
    IF slice.len < slice.cap
    THEN [slice EXCEPT !.len = @ + 1]
    ELSE [array |-> Len(h) + 1, len |-> slice.len + 1, cap |-> GrowCap(slice.cap)]

\* the heap after append(slice, x): x is written behind the last element,
\* in place or in a new array that starts as a copy
AppendHeap(h, slice, x) ==
    IF slice.len < slice.cap
    THEN [h EXCEPT ![slice.array][slice.len + 1] = x]
    ELSE Append(h, [i \in 1..GrowCap(slice.cap) |->
                      IF i <= slice.len THEN h[slice.array][i]
                      ELSE IF i = slice.len + 1 THEN x ELSE NoForward])

\* activeForwards[profile], the nil slice for an absent key
ForwardsOf(reg, profile) == IF profile \in DOMAIN reg THEN reg[profile] ELSE NilSlice

\* activeForwards[profile] = append(activeForwards[profile], forward)
AppendForward(reg, h, profile, forward) ==
    Put(reg, profile, AppendSlice(h, ForwardsOf(reg, profile), forward))

\* a start that registers the forward before it opens the listener
PortForwardRegistersFirst(profile, localPort, remotePort, isRemoteToLocal) ==
    LET forward == PortForwardRec(localPort, remotePort, isRemoteToLocal) IN
    /\ build = "root"
    /\ ~panicked
    /\ IF profile \notin DOMAIN connections
       THEN /\ ret' = Ret("PortForward", profile, "no active connection found", 0)
            /\ UNCHANGED <<activeForwards, heap, listeners>>
       ELSE /\ activeForwards' = AppendForward(activeForwards, heap, profile, forward)
            /\ heap' = AppendHeap(heap, ForwardsOf(activeForwards, profile), forward)
            /\ \/ /\ ret' = Ret("PortForward", profile, "failed to set up port forwarding", 0)
                  /\ UNCHANGED listeners
               \/ /\ CanListen(connections[profile].Client, forward)
                  /\ Len(listeners) < MaxForwards
                  /\ listeners' = Append(listeners,
                        NewListener(profile, connections[profile].Client, forward))
                  /\ ret' = Ret("PortForward", profile, "nil", 0)
    /\ UNCHANGED <<build, histVars, lockVars, xferVars, connections, clients, dialed, slept, listed, pairs, panicked>>
    /\ UNCHANGED sessVars

\* App.PortForward of the root program (portfarward.go:22-59): the pool
\* lookup, the listen call, the registration and the start of
\* handlePortForward.  The listen call can fail for reasons outside the
\* program (a port held by another process, a server that refuses).
PortForward(profile, localPort, remotePort, isRemoteToLocal) ==
    LET forward == PortForwardRec(localPort, remotePort, isRemoteToLocal) IN
    /\ build = "root"
    /\ ~panicked
    /\ IF profile \notin DOMAIN connections
       THEN /\ ret' = Ret("PortForward", profile, "no active connection found", 0)
            /\ UNCHANGED <<activeForwards, heap, listeners>>
       ELSE \/ /\ ret' = Ret("PortForward", profile, "failed to set up port forwarding", 0)
               /\ UNCHANGED <<activeForwards, heap, listeners>>
            \/ /\ CanListen(connections[profile].Client, forward)
               /\ Len(listeners) < MaxForwards
               /\ listeners' = Append(listeners,
                     NewListener(profile, connections[profile].Client, forward))
               /\ activeForwards' = AppendForward(activeForwards, heap, profile, forward)
               /\ heap' = AppendHeap(heap, ForwardsOf(activeForwards, profile), forward)
               /\ ret' = Ret("PortForward", profile, "nil", 0)
    /\ UNCHANGED <<build, histVars, lockVars, xferVars, connections, clients, dialed, slept, listed, pairs, panicked>>
    /\ UNCHANGED sessVars

\* App.PortForward of artifacts/main.go (artifacts/main.go:560-618):
\* getSSHClient (which dials through GetConnection when the key is absent),
\* the listen call and the start of the accept loop; nothing is registered
ArtPortForward(profile, localPort, remotePort, isRemoteToLocal) ==
    LET forward == PortForwardRec(localPort, remotePort, isRemoteToLocal)
        key == PoolKey(profile, Address(profile))
        hit == key \in DOMAIN connections
        c == IF hit THEN connections[key].Client ELSE Len(clients) + 1
        cls == IF hit THEN clients ELSE Append(clients, NewClient(profile))
    IN
    /\ build = "artifacts"
    /\ ~panicked
    /\ \/ /\ ~hit
          /\ ret' = Ret("PortForward", profile, "failed to get SSH client", 0)
          /\ UNCHANGED <<connections, clients, listeners>>
       \/ /\ hit \/ Len(clients) < MaxDials
          /\ clients' = cls
          /\ connections' = IF hit THEN GetConnectionHit(connections, key)
                            ELSE StoreConnection(connections, key, c)
          /\ \/ /\ ret' = Ret("PortForward", profile, "failed to listen", 0)
                /\ UNCHANGED listeners
             \/ /\ IF isRemoteToLocal
                   THEN cls[c].open /\ ~cls[c].broken /\ RemotePortFree(remotePort)
                   ELSE LocalPortFree(localPort)
                /\ Len(listeners) < MaxForwards
                /\ listeners' = Append(listeners, NewListener(profile, c, forward))
                /\ ret' = Ret("PortForward", profile, "nil", 0)
    /\ UNCHANGED <<build, histVars, lockVars, xferVars, dialed, slept, activeForwards, heap, listed, pairs, panicked>>
    /\ UNCHANGED sessVars

\* the dynamic type of a connection: net.Listen's listener accepts and
\* net.Dial returns a *net.TCPConn; the listener of ssh.Client.Listen
\* accepts and ssh.Client.Dial returns a channel connection
AcceptedType(forward) == IF forward.IsRemoteToLocal THEN "chanConn" ELSE "TCPConn"
DialedType(forward) == IF forward.IsRemoteToLocal THEN "TCPConn" ELSE "chanConn"

\* the two copy tasks of a pair, named by their destination
CopyTasks == {"localConn", "remoteConn"}

\* a connection the accept loop of listener l has accepted, handed to its
\* own task
NewPair(l) ==
    [listener |-> l, pc |-> "dial", localConn |-> "open", remoteConn |-> "none",
     task |-> [t \in CopyTasks |-> "none"]]

\* listener.Accept() returns a connection (portfarward.go:65, 71;
\* artifacts/main.go:590, 596): a peer has connected to the bound port
Accept(l) ==
    /\ ~panicked
    /\ listeners[l].open
    /\ listeners[l].loop = "accept"
    /\ listeners[l].forward.IsRemoteToLocal => Healthy(listeners[l].client)
    /\ Len(pairs) < MaxPairs
    /\ pairs' = Append(pairs, NewPair(l))
    /\ UNCHANGED <<build, histVars, lockVars, xferVars, connections, clients, dialed, slept, ret,
                   activeForwards, heap, listed, listeners, panicked>>
    /\ UNCHANGED sessVars

\* listener.Accept() returns an error, the accept loop returns and its
\* deferred listener.Close() runs (portfarward.go:62, 66-69;
\* artifacts/main.go:588-594).  Accept fails on a closed listener and, for
\* a remote listener, once its transport is closed or broken.
AcceptFail(l) ==
    /\ ~panicked
    /\ listeners[l].loop = "accept"
    /\ \/ ~listeners[l].open
       \/ listeners[l].forward.IsRemoteToLocal /\ ~Healthy(listeners[l].client)
    /\ listeners' = [listeners EXCEPT ![l].open = FALSE, ![l].loop = "returned"]
    /\ UNCHANGED <<build, histVars, lockVars, xferVars, connections, clients, dialed, slept, ret,
                   activeForwards, heap, listed, pairs, panicked>>
    /\ UNCHANGED sessVars

\* the task of an accepted connection dials the other end
\* (portfarward.go:72-87; artifacts/main.go:597-612).  On an error it
\* closes the accepted connection and returns; otherwise it starts the two
\* copy tasks.  ssh.Client.Dial needs a usable transport.
DialRemote(p) ==
    LET l == listeners[pairs[p].listener] IN
    /\ ~panicked
    /\ pairs[p].pc = "dial"
    /\ \/ pairs' = [pairs EXCEPT ![p].pc = "done", ![p].localConn = "closed"]
       \/ /\ l.forward.IsRemoteToLocal \/ Healthy(l.client)
          /\ pairs' = [pairs EXCEPT ![p].pc = "copy", ![p].remoteConn = "open",
                                    ![p].task = [t \in CopyTasks |-> "running"]]
    /\ UNCHANGED <<build, histVars, lockVars, xferVars, connections, clients, dialed, slept, ret,
                   activeForwards, heap, listed, listeners, panicked>>
    /\ UNCHANGED sessVars

\* the dynamic type of the destination of a copy task
DstType(p, t) ==
    IF t = "localConn" THEN AcceptedType(listeners[pairs[p].listener].forward)
    ELSE DialedType(listeners[pairs[p].listener].forward)

\* an unrecovered panic in a task ends the process: the operating system
\* closes every listener and every connection of the process
ProcessExit(ps) ==
    [p \in DOMAIN ps |->
       [ps[p] EXCEPT !.localConn = "closed",
                     !.remoteConn = IF @ = "none" THEN "none" ELSE "closed"]]

\* the pooled transports of a process that has ended
ExitClients(cs) == [c \in DOMAIN cs |-> [cs[c] EXCEPT !.open = FALSE]]

\* copyIO of the root program (portfarward.go:92-100, 107-109) run by copy
\* task t: dst.(*net.TCPConn) panics unless dst is a *net.TCPConn;
\* otherwise ReadFrom copies until the source ends or fails, and the task
\* reports to the wait group
copyIO(p, t) ==
    /\ build = "root"
    /\ ~panicked
    /\ pairs[p].task[t] = "running"
    /\ IF DstType(p, t) # "TCPConn"
       THEN /\ panicked' = TRUE
            /\ pairs' = ProcessExit(pairs)
            /\ listeners' = [l \in DOMAIN listeners |-> [listeners[l] EXCEPT !.open = FALSE]]
            /\ clients' = ExitClients(clients)
       ELSE /\ pairs' = [pairs EXCEPT ![p].task[t] = "ended"]
            /\ UNCHANGED <<listeners, panicked, clients>>
    /\ UNCHANGED <<build, histVars, lockVars, xferVars, connections, dialed, slept, ret, activeForwards,
                   heap, listed>>
    /\ UNCHANGED sessVars

\* forwardConnection of artifacts/main.go (artifacts/main.go:267-271) run
\* by copy task t: io.Copy returns when the source ends or a write fails,
\* then the deferred src.Close() and dst.Close() run
forwardConnection(p, t) ==
    /\ build = "artifacts"
    /\ ~panicked
    /\ pairs[p].task[t] = "running"
    /\ pairs' = [pairs EXCEPT ![p].task[t] = "ended", ![p].localConn = "closed",
                              ![p].remoteConn = "closed"]
    /\ UNCHANGED <<build, histVars, lockVars, xferVars, connections, clients, dialed, slept, ret,
                   activeForwards, heap, listed, listeners, panicked>>
    /\ UNCHANGED sessVars

\* wg.Wait() of the root program returns once both copy tasks have
\* reported, then the deferred remoteConn.Close() and localConn.Close() run
\* (portfarward.go:72, 87, 102); in artifacts/main.go the task of the pair
\* returns right after it has started the copy tasks
\* (artifacts/main.go:614-616)
PairReturn(p) ==
    /\ ~panicked
    /\ pairs[p].pc = "copy"
    /\ IF build = "root"
       THEN /\ \A t \in CopyTasks : pairs[p].task[t] = "ended"
            /\ pairs' = [pairs EXCEPT ![p].pc = "done", ![p].localConn = "closed",
                                      ![p].remoteConn = "closed"]
       ELSE pairs' = [pairs EXCEPT ![p].pc = "done"]
    /\ UNCHANGED <<build, histVars, lockVars, xferVars, connections, clients, dialed, slept, ret,
                   activeForwards, heap, listed, listeners, panicked>>
    /\ UNCHANGED sessVars

\* forwards[:i] followed by forwards[i+1:]
RemoveAt(seq, i) == SubSeq(seq, 1, i - 1) \o SubSeq(seq, i + 1, Len(seq))

\* the backing array after append(forwards[:i], forwards[i+1:]...): the
\* elements behind i move one cell down inside the array of forwards, and
\* the cell of the last element keeps its value
RemoveInPlace(array, slice, i) ==
    RemoveAt(SubSeq(array, 1, slice.len), i) \o SubSeq(array, slice.len, slice.cap)

\* a comparison that leaves the direction out
MatchesPortsOnly(forward, localPort, remotePort, isRemoteToLocal) ==
    /\ forward.LocalPort = localPort
    /\ forward.RemotePort = remotePort

\* the condition of the loop of StopPortForward (portfarward.go:121)
Matches(forward, localPort, remotePort, isRemoteToLocal) ==
    /\ forward.LocalPort = localPort
    /\ forward.RemotePort = remotePort
    /\ forward.IsRemoteToLocal = isRemoteToLocal

\* the index of the first entry the loop of StopPortForward matches, or 0
FirstMatch(forwards, localPort, remotePort, isRemoteToLocal) ==
    LET hits == {i \in 1..Len(forwards) :
                    Matches(forwards[i], localPort, remotePort, isRemoteToLocal)}
    IN IF hits = {} THEN 0 ELSE CHOOSE i \in hits : \A j \in hits : i <= j

\* App.StopPortForward (portfarward.go:111-130): the first matching entry
\* is cut out of the slice; the listener is not touched (line 124)
StopPortForward(profile, localPort, remotePort, isRemoteToLocal) ==
    /\ build = "root"
    /\ ~panicked
    /\ IF profile \notin DOMAIN activeForwards
       THEN /\ ret' = Ret("StopPortForward", profile,
                          "no active port forwards found for profile", 0)
            /\ UNCHANGED <<activeForwards, heap>>
       ELSE LET forwards == activeForwards[profile]
                i == FirstMatch(Elems(heap, forwards), localPort, remotePort,
                                isRemoteToLocal)
            IN IF i # 0
               THEN /\ activeForwards' =
                         [activeForwards EXCEPT ![profile].len = @ - 1]
                    /\ heap' = [heap EXCEPT ![forwards.array] =
                                                RemoveInPlace(@, forwards, i)]
                    /\ ret' = Ret("StopPortForward", profile, "nil", 0)
               ELSE /\ ret' = Ret("StopPortForward", profile, "port forward not found", 0)
                    /\ UNCHANGED <<activeForwards, heap>>
    /\ UNCHANGED <<build, histVars, lockVars, xferVars, connections, clients, dialed, slept, listed, listeners,
                   pairs, panicked>>
    /\ UNCHANGED sessVars

\* App.GetActivePortForwards (portfarward.go:132-142): the slice stored in
\* the map itself, or an empty one
GetActivePortForwards(profile) ==
    IF profile \in DOMAIN activeForwards THEN activeForwards[profile] ELSE NilSlice

\* a call of GetActivePortForwards returns; its caller keeps the slice
ListForwards(profile) ==
    /\ build = "root"
    /\ ~panicked
    /\ listed' = listed \cup {GetActivePortForwards(profile)}
    /\ ret' = Ret("GetActivePortForwards", profile, "nil", 0)
    /\ UNCHANGED <<build, histVars, lockVars, xferVars, connections, clients, dialed, slept, activeForwards, heap,
                   listeners, pairs, panicked>>
    /\ UNCHANGED sessVars

\* the calls and tasks of port forwarding side by side with connect and
\* disconnect, for as long as the process lives
ForwardNext ==
    \/ \E p \in SessionProfiles : ~panicked /\ ConnectDial(PasswordConfig(p))
    \/ \E d \in dialed : ~panicked /\ ConnectStore(d)
    \/ \E p \in SessionProfiles : ~panicked /\ DisconnectSSH(p)
    \/ \E p \in SessionProfiles, lp \in LocalPorts, rp \in RemotePorts, d \in BOOLEAN :
          PortForward(p, lp, rp, d)
    \/ \E p \in SessionProfiles, lp \in LocalPorts, rp \in RemotePorts, d \in BOOLEAN :
          ArtPortForward(p, lp, rp, d)
    \/ \E p \in SessionProfiles, lp \in LocalPorts, rp \in RemotePorts, d \in BOOLEAN :
          StopPortForward(p, lp, rp, d)
    \/ \E l \in DOMAIN listeners : Accept(l)
    \/ \E l \in DOMAIN listeners : AcceptFail(l)
    \/ \E p \in DOMAIN pairs : DialRemote(p)
    \/ \E p \in DOMAIN pairs, t \in CopyTasks : copyIO(p, t)
    \/ \E p \in DOMAIN pairs, t \in CopyTasks : forwardConnection(p, t)
    \/ \E p \in DOMAIN pairs : PairReturn(p)

ForwardSpec == Init /\ [][ForwardNext]_vars

\* ------------------------------------------------- port forwarding claims
\* the forward is among the entries list(profile) returns
Listed(profile, forward) ==
    \E i \in 1..GetActivePortForwards(profile).len :
       Elems(heap, GetActivePortForwards(profile))[i] = forward

\* a listener opened for this forward of this profile is open
ListenerOpen(profile, forward) ==
    \E l \in DOMAIN listeners :
       /\ listeners[l].profile = profile
       /\ listeners[l].forward = forward
       /\ listeners[l].open

\* C16: after stop(profile, localPort, remotePort, direction) has succeeded
\* the forward is absent from list(profile) and its listener is closed, so
\* that no further connection is accepted.
C16_StopClosesListener ==
    [][\A p \in SessionProfiles, lp \in LocalPorts, rp \in RemotePorts, d \in BOOLEAN :
          (StopPortForward(p, lp, rp, d) /\ ret'.err = "nil") =>
             /\ ~Listed(p, PortForwardRec(lp, rp, d))'
             /\ ~ListenerOpen(p, PortForwardRec(lp, rp, d))']_vars

StopNotFound == {"no active port forwards found for profile", "port forward not found"}

\* C17: stop fails with a not-found error when no registered entry of that
\* profile matches all three of local port, remote port and direction; the
\* registry is unchanged.
C17_StopUnknownFails ==
    [][\A p \in SessionProfiles, lp \in LocalPorts, rp \in RemotePorts, d \in BOOLEAN :
          (StopPortForward(p, lp, rp, d) /\ ~Listed(p, PortForwardRec(lp, rp, d))) =>
             /\ ret'.op = "StopPortForward"
             /\ ret'.err \in StopNotFound
             /\ UNCHANGED <<activeForwards, heap, listeners>>]_vars

\* a stop has failed on a profile whose two registered forwards each differ
\* from a third tuple in one component only
C17_Witness ==
    /\ ret = Ret("StopPortForward", <<"a">>, "port forward not found", 0)
    /\ <<"a">> \in DOMAIN activeForwards
    /\ activeForwards[<<"a">>].len = 2
    /\ \E lp \in LocalPorts, rp \in RemotePorts, d \in BOOLEAN :
          /\ Listed(<<"a">>, PortForwardRec(lp, rp, ~d))
          /\ \E lq \in LocalPorts \ {lp} : Listed(<<"a">>, PortForwardRec(lq, rp, d))
          /\ ~Listed(<<"a">>, PortForwardRec(lp, rp, d))

\* no two entries of one profile carry the same tuple
NoDuplicateEntries ==
    \A p \in DOMAIN activeForwards :
       \A i, j \in 1..activeForwards[p].len :
          Elems(heap, activeForwards[p])[i] = Elems(heap, activeForwards[p])[j] => i = j

\* a start whose tuple is already registered for the profile fails and
\* registers nothing
DuplicateStartFails ==
    \A p \in SessionProfiles, lp \in LocalPorts, rp \in RemotePorts, d \in BOOLEAN :
       (PortForward(p, lp, rp, d) /\ Listed(p, PortForwardRec(lp, rp, d))) =>
          /\ ret'.err # "nil"
          /\ UNCHANGED <<activeForwards, heap>>

\* C18: the registry of a profile never holds two entries with the same
\* (local port, remote port, direction); a second start with the identical
\* tuple fails and registers nothing.
C18_NoDuplicateForwards == []NoDuplicateEntries /\ [][DuplicateStartFails]_vars

\* a copy task of the pair has ended
SomeCopyEnded(p) == \E t \in CopyTasks : pairs[p].task[t] = "ended"

\* both connections of the pair are closed
BothClosed(p) == pairs[p].localConn = "closed" /\ pairs[p].remoteConn = "closed"

\* C19: for every accepted pair, as soon as either copy task has ended both
\* connections are closed; closing does not wait for the other copy task.
C19_CloseOnFirstCopyEnd ==
    \A p \in DOMAIN pairs : SomeCopyEnded(p) => BothClosed(p)

\* the listeners opened for the forwards of a profile that are still open
OpenListeners(profile) ==
    {l \in DOMAIN listeners : listeners[l].profile = profile /\ listeners[l].open}

\* C20: after disconnect(profile) has succeeded every forward of that
\* profile is destroyed: list(profile) is empty and its listeners are closed.
C20_DisconnectDestroysForwards ==
    [][\A p \in SessionProfiles :
          (DisconnectSSH(p) /\ ret'.err = "nil") =>
             /\ Elems(heap, GetActivePortForwards(p))' = <<>>
             /\ OpenListeners(p)' = {}]_vars

\* the calls on the forward registry side by side
ListNext ==
    \/ \E p \in SessionProfiles : ConnectDial(PasswordConfig(p))
    \/ \E d \in dialed : ConnectStore(d)
    \/ \E p \in SessionProfiles, lp \in LocalPorts, rp \in RemotePorts, d \in BOOLEAN :
          PortForward(p, lp, rp, d)
    \/ \E p \in SessionProfiles, lp \in LocalPorts, rp \in RemotePorts, d \in BOOLEAN :
          StopPortForward(p, lp, rp, d)
    \/ \E p \in SessionProfiles : ListForwards(p)

ListSpec == Init /\ [][ListNext]_vars

\* C21: the sequence list(profile) has returned is a snapshot: no later
\* start or stop changes the contents of a sequence already returned.
C21_ListIsSnapshot ==
    [][\A slice \in listed : Elems(heap, slice)' = Elems(heap, slice)]_vars

\* --------------------------------------------------------- file transfer
\* the bytes a file is made of
Bytes == {0, 1}

\* every byte sequence of this length or shorter
FilesUpTo(n) == UNION {[1..k -> Bytes] : k \in 0..n}

LocalPaths == {"f", "g"}
RemotePaths == {"r"}

\* a progress value num/den as the code computes it in float64; 0/0 is NaN
Progress(num, den) == [num |-> num, den |-> den]

\* float64(pr.ReadValue) / float64(pr.Total) * 100 (app.go:915)
PercentOfTotal(readValue, total) == Progress(100 * readValue, total)

\* float64(total) / float64(1024*1024) (artifacts/main.go:728, 778): the
\* divisor is the size of the buffer the loop reads into
FractionOfBuffer(total) == Progress(total, ChunkSize)

\* a transfer that has opened its files; read counts the bytes read so far
NewTransfer(op, profile, client, from, to, total) ==
    [op |-> op, profile |-> profile, client |-> client, from |-> from, to |-> to,
     pc |-> "copy", sftp |-> "open", read |-> 0, Total |-> total,
     events |-> <<>>, err |-> "none"]

\* every earlier transfer has returned
TransfersDone == \A t \in DOMAIN transfers : transfers[t].pc = "done"

\* the number of bytes a Read into a buffer of ChunkSize bytes can return
\* when that many bytes are left in the file
ReadSizes(left) == 1..Min(ChunkSize, left)

\* the function returns: its deferred Close calls run (app.go:713-727,
\* 861-875; artifacts/main.go:695-707, 745-757)
Return(t, err) == [transfers[t] EXCEPT !.pc = "done", !.sftp = "closed", !.err = err]

\* a file of the user appears on the local disk
WriteLocalFile(path, bytes) ==
    /\ transfers = <<>>
    /\ path \notin DOMAIN localFiles
    /\ localFiles' = Put(localFiles, path, bytes)
    /\ UNCHANGED <<build, histVars, lockVars, connections, clients, dialed, slept, ret, remoteFiles, transfers>>
    /\ UNCHANGED <<sessVars, fwdVars>>

\* the part of a transfer after the client is known: sftp.NewClient, the
\* source is opened, the destination is created empty, and for the root
\* UploadFile the size of the source is taken (app.go:709-727, 857-882;
\* artifacts/main.go:691-707, 741-757).  cls are the clients after the
\* acquisition.
OpenTransfer(name, op, profile, c, cls, from, to) ==
    LET src == IF op = "upload" THEN localFiles ELSE remoteFiles IN
    \/ /\ ret' = Ret(name, profile, "failed to create SFTP client", 0)
       /\ UNCHANGED xferVars
    \/ /\ cls[c].open /\ ~cls[c].broken
       /\ IF from \notin DOMAIN src
          THEN /\ ret' = Ret(name, profile, "failed to open file", 0)
               /\ UNCHANGED xferVars
          ELSE /\ Len(transfers) < MaxTransfers
               /\ transfers' = Append(transfers,
                     NewTransfer(op, profile, c, from, to,
                                 IF name = "UploadFile" /\ build = "root"
                                 THEN Len(src[from]) ELSE 0))
               /\ IF op = "upload"
                  THEN remoteFiles' = Put(remoteFiles, to, <<>>) /\ UNCHANGED localFiles
                  ELSE localFiles' = Put(localFiles, to, <<>>) /\ UNCHANGED remoteFiles
               /\ UNCHANGED ret

\* a.getSSHClient(profile) followed by the opening of a transfer:
\* GetConnection returns the pooled client of the key or dials one and
\* stores it (cmdrunner.go:55-82, sshconnection.go:32-54)
OpenWithGetSSHClient(name, op, profile, from, to) ==
    LET key == PoolKey(profile, Address(profile))
        hit == key \in DOMAIN connections
        c == IF hit THEN connections[key].Client ELSE Len(clients) + 1
        cls == IF hit THEN clients ELSE Append(clients, NewClient(profile))
    IN \/ /\ ~hit
          /\ ret' = Ret(name, profile, "failed to connect", 0)
          /\ UNCHANGED <<connections, clients>>
          /\ UNCHANGED xferVars
       \/ /\ hit \/ Len(clients) < MaxDials
          /\ clients' = cls
          /\ connections' = IF hit THEN GetConnectionHit(connections, key)
                            ELSE StoreConnection(connections, key, c)
          /\ OpenTransfer(name, op, profile, c, cls, from, to)

\* App.UploadFile of the root program up to the copy (app.go:847-894): the
\* pool is read under the name of the profile
UploadFile(profile, localPath, remotePath) ==
    /\ build = "root"
    /\ TransfersDone
    /\ IF profile \notin DOMAIN connections
       THEN /\ ret' = Ret("UploadFile", profile, "no active connection found", 0)
            /\ UNCHANGED xferVars
       ELSE OpenTransfer("UploadFile", "upload", profile, connections[profile].Client,
                         clients, localPath, remotePath)
    /\ UNCHANGED <<build, histVars, lockVars, connections, clients, dialed, slept>>
    /\ UNCHANGED <<sessVars, fwdVars>>

\* App.DownloadFile of the root program up to the copy (app.go:702-727)
DownloadFile(profile, remotePath, localPath) ==
    /\ build = "root"
    /\ TransfersDone
    /\ OpenWithGetSSHClient("DownloadFile", "download", profile, remotePath, localPath)
    /\ UNCHANGED <<build, histVars, lockVars, dialed, slept>>
    /\ UNCHANGED <<sessVars, fwdVars>>

\* App.UploadFile of artifacts/main.go up to the loop (artifacts/main.go:685-710)
ArtUploadFile(profile, localPath, remotePath) ==
    /\ build = "artifacts"
    /\ TransfersDone
    /\ OpenWithGetSSHClient("UploadFile", "upload", profile, localPath, remotePath)
    /\ UNCHANGED <<build, histVars, lockVars, dialed, slept>>
    /\ UNCHANGED <<sessVars, fwdVars>>

\* App.DownloadFile of artifacts/main.go up to the loop (artifacts/main.go:735-760)
ArtDownloadFile(profile, remotePath, localPath) ==
    /\ build = "artifacts"
    /\ TransfersDone
    /\ OpenWithGetSSHClient("DownloadFile", "download", profile, remotePath, localPath)
    /\ UNCHANGED <<build, histVars, lockVars, dialed, slept>>
    /\ UNCHANGED <<sessVars, fwdVars>>

\* the source and the destination of a transfer, as byte sequences
Source(t) ==
    IF transfers[t].op = "upload" THEN localFiles[transfers[t].from]
    ELSE remoteFiles[transfers[t].from]

Destination(t) ==
    IF transfers[t].op = "upload" THEN remoteFiles[transfers[t].to]
    ELSE localFiles[transfers[t].to]

\* a read that starts over at the first byte of the source
ChunkAtStart(t, n) == SubSeq(Source(t), 1, n)

\* the next n bytes of the source
Chunk(t, n) == SubSeq(Source(t), transfers[t].read + 1, transfers[t].read + n)

\* n more bytes are written behind the destination
WriteChunk(t, n) ==
    IF transfers[t].op = "upload"
    THEN /\ remoteFiles' = [remoteFiles EXCEPT ![transfers[t].to] = @ \o Chunk(t, n)]
         /\ UNCHANGED localFiles
    ELSE /\ localFiles' = [localFiles EXCEPT ![transfers[t].to] = @ \o Chunk(t, n)]
         /\ UNCHANGED remoteFiles

\* one Read of the ProgressReader inside io.Copy(remoteFile, reader) of the
\* root UploadFile (app.go:897-902, 912-918): the bytes are counted and the
\* progress is emitted, also on the last Read, which returns 0 bytes and
\* io.EOF; then the bytes are written to the remote file
ProgressRead(t) ==
    LET x == transfers[t]
        left == Len(Source(t)) - x.read
    IN
    /\ build = "root"
    /\ x.pc = "copy"
    /\ x.op = "upload"
    /\ IF left = 0
       THEN /\ transfers' = [transfers EXCEPT ![t] =
                  [Return(t, "nil") EXCEPT
                     !.events = Append(@, PercentOfTotal(x.read, x.Total))]]
            /\ UNCHANGED <<localFiles, remoteFiles>>
       ELSE \E n \in ReadSizes(left) :
              LET ev == Append(x.events, PercentOfTotal(x.read + n, x.Total)) IN
              IF Healthy(x.client)
              THEN /\ transfers' = [transfers EXCEPT ![t].read = @ + n, ![t].events = ev]
                   /\ WriteChunk(t, n)
              ELSE /\ transfers' = [transfers EXCEPT ![t] =
                         [Return(t, "failed to copy file contents") EXCEPT
                            !.read = @ + n, !.events = ev]]
                   /\ UNCHANGED <<localFiles, remoteFiles>>
    /\ UNCHANGED <<build, histVars, lockVars, connections, clients, dialed, slept, ret>>
    /\ UNCHANGED <<sessVars, fwdVars>>

\* one round of io.Copy(localFile, remoteFile) of the root DownloadFile
\* (app.go:729-735): nothing is emitted
CopyRound(t) ==
    LET x == transfers[t]
        left == Len(Source(t)) - x.read
    IN
    /\ build = "root"
    /\ x.pc = "copy"
    /\ x.op = "download"
    /\ IF ~Healthy(x.client)
       THEN /\ transfers' = [transfers EXCEPT ![t] = Return(t, "read failed")]
            /\ UNCHANGED <<localFiles, remoteFiles>>
       ELSE IF left = 0
       THEN /\ transfers' = [transfers EXCEPT ![t] = Return(t, "nil")]
            /\ UNCHANGED <<localFiles, remoteFiles>>
       ELSE \E n \in ReadSizes(left) :
              /\ transfers' = [transfers EXCEPT ![t].read = @ + n]
              /\ WriteChunk(t, n)
    /\ UNCHANGED <<build, histVars, lockVars, connections, clients, dialed, slept, ret>>
    /\ UNCHANGED <<sessVars, fwdVars>>

\* one round of the loop of UploadFile and of DownloadFile of
\* artifacts/main.go (artifacts/main.go:711-732, 761-782): a read, a write,
\* and an event once the bytes are written; the loop ends on a read of 0
\* bytes.  A read or write on the remote file fails when the transport is
\* not usable.
LoopRound(t) ==
    LET x == transfers[t]
        left == Len(Source(t)) - x.read
    IN
    /\ build = "artifacts"
    /\ x.pc = "copy"
    /\ IF left = 0 /\ (x.op = "upload" \/ Healthy(x.client))
       THEN /\ transfers' = [transfers EXCEPT ![t] = Return(t, "nil")]
            /\ UNCHANGED <<localFiles, remoteFiles>>
       ELSE IF ~Healthy(x.client)
       THEN /\ transfers' = [transfers EXCEPT ![t] = Return(t, "transfer failed")]
            /\ UNCHANGED <<localFiles, remoteFiles>>
       ELSE \E n \in ReadSizes(left) :
              /\ transfers' = [transfers EXCEPT
                    ![t].read = @ + n,
                    ![t].events = Append(@, FractionOfBuffer(x.read + n))]
              /\ WriteChunk(t, n)
    /\ UNCHANGED <<build, histVars, lockVars, connections, clients, dialed, slept, ret>>
    /\ UNCHANGED <<sessVars, fwdVars>>

\* uploads and downloads one after the other, with connect and transport
\* failures
TransferNext ==
    \/ \E p \in SessionProfiles : ConnectDial(PasswordConfig(p))
    \/ \E d \in dialed : ConnectStore(d)
    \/ \E c \in DOMAIN clients : RemoteFail(c)
    \/ \E bytes \in FilesUpTo(MaxFileLen) : WriteLocalFile("f", bytes)
    \/ \E p \in SessionProfiles : UploadFile(p, "f", "r")
    \/ \E p \in SessionProfiles : DownloadFile(p, "r", "g")
    \/ \E p \in SessionProfiles : ArtUploadFile(p, "f", "r")
    \/ \E p \in SessionProfiles : ArtDownloadFile(p, "r", "g")
    \/ \E t \in DOMAIN transfers : ProgressRead(t)
    \/ \E t \in DOMAIN transfers : CopyRound(t)
    \/ \E t \in DOMAIN transfers : LoopRound(t)

TransferSpec == Init /\ [][TransferNext]_vars

\* ------------------------------------------------- file transfer claims
\* a <= b for progress values; a comparison with NaN is false
ProgressLeq(a, b) == a.den > 0 /\ b.den > 0 /\ a.num * b.den <= b.num * a.den

\* the progress value is 100
IsHundred(a) == a.den > 0 /\ a.num = 100 * a.den

\* the transfer has returned without an error
Completed(x) == x.pc = "done" /\ x.err = "nil"

\* C22: during an upload or a download a progress event is emitted after
\* each chunk, the progress values never decrease, and the last value
\* emitted for a completed transfer is 100.  A chunk holds at most ChunkSize
\* bytes, so there are at least read / ChunkSize events; a completed
\* transfer of an empty file may emit nothing.
C22_ProgressEndsAtHundred ==
    \A t \in DOMAIN transfers :
       LET x == transfers[t] IN
       /\ Len(x.events) * ChunkSize >= x.read
       /\ \A i, j \in 1..Len(x.events) : i < j => ProgressLeq(x.events[i], x.events[j])
       /\ (Completed(x) /\ x.events # <<>>) => IsHundred(x.events[Len(x.events)])

\* an upload and a later download of the file it wrote, both completed:
\* no upload in between has written the remote file again, and no later
\* download has written the local copy again
RoundTrip(u, d) ==
    /\ u < d
    /\ transfers[u].op = "upload" /\ Completed(transfers[u])
    /\ transfers[d].op = "download" /\ Completed(transfers[d])
    /\ transfers[d].from = transfers[u].to
    /\ transfers[d].to # transfers[u].from
    /\ \A t \in (u + 1)..(d - 1) :
          ~(transfers[t].op = "upload" /\ transfers[t].to = transfers[u].to)
    /\ \A t \in (d + 1)..Len(transfers) :
          ~(transfers[t].op = "download" /\ transfers[t].to = transfers[d].to)

\* C23: uploading a file and then downloading it to a different local path
\* yields a file whose bytes equal the original, for every length including
\* zero and lengths that are not a multiple of the chunk size.
C23_RoundTripKeepsBytes ==
    \A u, d \in DOMAIN transfers :
       RoundTrip(u, d) => localFiles[transfers[d].to] = localFiles[transfers[u].from]

\* a round trip of a file of three bytes, not all equal, in chunks of two
C23_Witness ==
    \E u, d \in DOMAIN transfers :
       /\ RoundTrip(u, d)
       /\ Len(localFiles[transfers[u].from]) = MaxFileLen
       /\ MaxFileLen % ChunkSize # 0
       /\ localFiles[transfers[u].from][1] # localFiles[transfers[u].from][MaxFileLen]
       /\ localFiles[transfers[d].to] = localFiles[transfers[u].from]

\* ------------------------------------------------ claims across components
\* the pool holds no connection for the profile, under either form of key
NotPooled(p) ==
    /\ p \notin DOMAIN connections
    /\ PoolKey(p, Address(p)) \notin DOMAIN connections

\* a call of execute, of forward start or of a file operation for the
\* profile takes its first step
BorrowingCall(p) ==
    \/ ExecuteStart(p, Ls) \/ ArtExecuteStart(p, Ls)
    \/ \E lp \in LocalPorts, rp \in RemotePorts, d \in BOOLEAN :
          PortForward(p, lp, rp, d) \/ ArtPortForward(p, lp, rp, d)
    \/ UploadFile(p, "f", "r") \/ ArtUploadFile(p, "f", "r")
    \/ DownloadFile(p, "r", "g") \/ ArtDownloadFile(p, "r", "g")

\* C24: there is no automatic reconnect: execute, forward start and file
\* operations called for a profile that has no pooled connection fail with
\* an error, dial nothing, add no pool entry and leave the session registry
\* and the forward registry unchanged.
C24_NoAutomaticReconnect ==
    [][\A p \in SessionProfiles :
          (NotPooled(p) /\ BorrowingCall(p)) =>
             /\ ret'.err # "nil"
             /\ UNCHANGED <<connections, clients, activeSessions, activeForwards>>]_vars

\* ------------------------------------------------------- registry mutexes
\* The calls of the program once more, at the grain of their lock
\* operations: a call is the sequence of its Lock()s, Unlock()s, blocking
\* calls and early returns, in the order of the source.
\*   pool      connectionPool.mu
\*   sessions  activeSessionsMutex (root) / commandMutex (artifacts)
\*   forwards  activeForwardsMutex
Mutexes == {"pool", "sessions", "forwards"}

Lock(m) == [kind |-> "lock", arg |-> m, skips |-> FALSE]

\* an explicit Unlock(), or the deferred one at the return
Unlock(m) == [kind |-> "unlock", arg |-> m, skips |-> FALSE]

\* a blocking call made on every path
Call(name) == [kind |-> "call", arg |-> name, skips |-> FALSE]

\* a blocking call that one branch of the code does not make
CallIf(name) == [kind |-> "call", arg |-> name, skips |-> TRUE]

\* an if err != nil { return } made with no deferred Unlock pending
MayReturn == [kind |-> "return", arg |-> "err", skips |-> TRUE]

\* DisconnectSSH, closeAllConnections, CloseConnection and one round of
\* cleanupIdleConnections: Lock, Close the clients found, Unlock
CloseUnderLock == <<Lock("pool"), CallIf("close"), Unlock("pool")>>

\* GetConnection: Lock, on a miss ssh.Dial, deferred Unlock
GetConnectionProgram == <<Lock("pool"), CallIf("dial"), Unlock("pool")>>

\* ExecuteInteractiveCommand of the root program with the session
\* registered before the pool is unlocked
NestedExecute ==
    <<Lock("pool"), Call("NewSession"), Lock("sessions"), Unlock("sessions"),
      Unlock("pool"), Call("Wait"), Call("session.Close"),
      Lock("sessions"), Unlock("sessions")>>

\* ExecuteInteractiveCommand of the root program
RootExecute ==
    <<Lock("pool"), Unlock("pool"), MayReturn,          \* cmdrunner.go:145-151
      Call("NewSession"), MayReturn,                    \* cmdrunner.go:153-156
      Lock("sessions"), Unlock("sessions"),             \* cmdrunner.go:158-160
      Call("Wait"),                                     \* cmdrunner.go:169-202
      Call("session.Close"),                            \* cmdrunner.go:163
      Lock("sessions"), Unlock("sessions")>>            \* cmdrunner.go:164-166

RootProgramNested(op) ==
    CASE op = "ConnectSSHWithHostKeyCheck" ->
           <<Call("dial"), MayReturn, Lock("pool"), Unlock("pool")>>
      [] op = "DisconnectSSH" -> CloseUnderLock
      [] op = "GetConnection" -> GetConnectionProgram
      [] op = "closeAllConnections" -> CloseUnderLock
      [] op = "ExecuteInteractiveCommand" -> NestedExecute
      [] op = "StopInteractiveCommand" ->
           <<Lock("sessions"), Unlock("sessions"), MayReturn,
             Call("Signal"), MayReturn,
             Lock("sessions"), CallIf("session.Close"), Unlock("sessions")>>
      [] op = "PortForward" ->
           <<Lock("pool"), Unlock("pool"), MayReturn,
             Call("Listen"), MayReturn,
             Lock("forwards"), Unlock("forwards")>>
      [] op = "StopPortForward" -> <<Lock("forwards"), Unlock("forwards")>>
      [] op = "GetActivePortForwards" -> <<Lock("forwards"), Unlock("forwards")>>
      [] op = "UploadFile" ->
           <<Lock("pool"), Unlock("pool"), MayReturn, Call("sftp")>>

\* the calls of the root program
RootProgram(op) ==
    CASE op = "ConnectSSHWithHostKeyCheck" ->      \* app.go:197-209
           <<Call("dial"), MayReturn, Lock("pool"), Unlock("pool")>>
      [] op = "DisconnectSSH" -> CloseUnderLock    \* app.go:120-134
      [] op = "GetConnection" -> GetConnectionProgram
      [] op = "closeAllConnections" -> CloseUnderLock    \* app.go:405-415
      [] op = "ExecuteInteractiveCommand" -> RootExecute
      [] op = "StopInteractiveCommand" ->          \* cmdrunner.go:236-258
           <<Lock("sessions"), Unlock("sessions"), MayReturn,
             Call("Signal"), MayReturn,
             Lock("sessions"), CallIf("session.Close"), Unlock("sessions")>>
      [] op = "PortForward" ->                     \* portfarward.go:23-54
           <<Lock("pool"), Unlock("pool"), MayReturn,
             Call("Listen"), MayReturn,
             Lock("forwards"), Unlock("forwards")>>
      [] op = "StopPortForward" ->                 \* portfarward.go:112-129
           <<Lock("forwards"), Unlock("forwards")>>
      [] op = "GetActivePortForwards" ->           \* portfarward.go:133-141
           <<Lock("forwards"), Unlock("forwards")>>
      [] op = "UploadFile" ->                      \* app.go:848-902
           <<Lock("pool"), Unlock("pool"), MayReturn, Call("sftp")>>

\* the calls of artifacts/main.go; getSSHClient ends in GetConnection
ArtProgram(op) ==
    CASE op = "GetConnection" -> GetConnectionProgram
      [] op = "CloseConnection" -> CloseUnderLock
      [] op = "cleanupIdleConnections" -> CloseUnderLock
      [] op = "ExecuteInteractiveCommand" ->       \* artifacts/main.go:410-456
           GetConnectionProgram \o
           <<MayReturn, Call("NewSession"), MayReturn,
             Lock("sessions"), Unlock("sessions"),
             Call("stream"),
             Lock("sessions"), Unlock("sessions"),
             Call("session.Close")>>
      [] op = "StopInteractiveCommand" ->          \* artifacts/main.go:522-549
           <<Lock("sessions"), Unlock("sessions"), MayReturn,
             Call("Signal"),
             Lock("sessions"), Unlock("sessions")>>
      [] op = "PortForward" ->                     \* artifacts/main.go:559-584
           GetConnectionProgram \o <<MayReturn, Call("Listen")>>

RootOps == {"ConnectSSHWithHostKeyCheck", "DisconnectSSH", "GetConnection",
            "closeAllConnections", "ExecuteInteractiveCommand",
            "StopInteractiveCommand", "PortForward", "StopPortForward",
            "GetActivePortForwards", "UploadFile"}

ArtOps == {"GetConnection", "CloseConnection", "cleanupIdleConnections",
           "ExecuteInteractiveCommand", "StopInteractiveCommand", "PortForward"}

Ops == IF build = "root" THEN RootOps ELSE ArtOps

\* SavedCommandsManager.ListSavedCommands (savedCommands.go:36-58): Lock,
\* os.Stat, ReadFile if the file exists, deferred Unlock
ListSavedCommands == <<Lock("scm"), Call("Stat"), CallIf("ReadFile"), Unlock("scm")>>

\* the calls on the saved commands: SaveCommand and DeleteSavedCommand lock
\* scm.mu and call ListSavedCommands with it held, then write the file
\* unless the list failed
SavedProgram(op) ==
    CASE op = "ListSavedCommands" -> ListSavedCommands
      [] op = "SaveCommand" ->                     \* savedCommands.go:61-82
           <<Lock("scm")>> \o ListSavedCommands \o
           <<CallIf("WriteFile"), Unlock("scm")>>
      [] op = "DeleteSavedCommand" ->              \* savedCommands.go:85-102
           <<Lock("scm")>> \o ListSavedCommands \o
           <<CallIf("WriteFile"), Unlock("scm")>>
      [] op = "ExecuteSavedCommand" ->             \* savedCommands.go:121-140
           ListSavedCommands \o <<MayReturn>> \o RootExecute

SavedOps == {"ListSavedCommands", "SaveCommand", "DeleteSavedCommand",
             "ExecuteSavedCommand"}

Program(op) ==
    IF op \in SavedOps THEN SavedProgram(op)
    ELSE IF build = "root" THEN RootProgram(op) ELSE ArtProgram(op)

IdleTask == [op |-> "idle", pc |-> 0, at |-> "idle"]

\* the instruction a task is at
Instr(t) == Program(tasks[t].op)[tasks[t].pc]

\* the task after its current instruction: at the next one, or returned
Advance(t) ==
    IF tasks[t].pc = Len(Program(tasks[t].op)) THEN IdleTask
    ELSE [op |-> tasks[t].op, pc |-> tasks[t].pc + 1, at |-> "ready"]

Ready(t, kind) ==
    /\ tasks[t].at = "ready"
    /\ Instr(t).kind = kind

\* the mutexes a task holds
Held(t) == {m \in Mutexes : mutex[m] = t}

\* a call is made
StartTask(t, op) ==
    /\ tasks[t] = IdleTask
    /\ op \in Ops
    /\ tasks' = [tasks EXCEPT ![t] = [op |-> op, pc |-> 1, at |-> "ready"]]
    /\ UNCHANGED <<build, histVars, connections, clients, dialed, slept, ret, mutex>>
    /\ UNCHANGED <<sessVars, fwdVars, xferVars>>

\* mu.Lock() returns: the mutex was free
Acquire(t) ==
    /\ Ready(t, "lock")
    /\ mutex[Instr(t).arg] = 0
    /\ mutex' = [mutex EXCEPT ![Instr(t).arg] = t]
    /\ tasks' = [tasks EXCEPT ![t] = Advance(t)]
    /\ UNCHANGED <<build, histVars, connections, clients, dialed, slept, ret>>
    /\ UNCHANGED <<sessVars, fwdVars, xferVars>>

\* mu.Unlock()
Release(t) ==
    /\ Ready(t, "unlock")
    /\ mutex' = [mutex EXCEPT ![Instr(t).arg] = 0]
    /\ tasks' = [tasks EXCEPT ![t] = Advance(t)]
    /\ UNCHANGED <<build, histVars, connections, clients, dialed, slept, ret>>
    /\ UNCHANGED <<sessVars, fwdVars, xferVars>>

\* the task enters a blocking call
EnterCall(t) ==
    /\ Ready(t, "call")
    /\ tasks' = [tasks EXCEPT ![t].at = "call"]
    /\ UNCHANGED <<build, histVars, connections, clients, dialed, slept, ret, mutex>>
    /\ UNCHANGED <<sessVars, fwdVars, xferVars>>

\* the blocking call returns
ReturnCall(t) ==
    /\ tasks[t].at = "call"
    /\ tasks' = [tasks EXCEPT ![t] = Advance(t)]
    /\ UNCHANGED <<build, histVars, connections, clients, dialed, slept, ret, mutex>>
    /\ UNCHANGED <<sessVars, fwdVars, xferVars>>

\* the branch that does not make the call, or does not return early
Skip(t) ==
    /\ tasks[t].at = "ready"
    /\ Instr(t).skips
    /\ tasks' = [tasks EXCEPT ![t] = Advance(t)]
    /\ UNCHANGED <<build, histVars, connections, clients, dialed, slept, ret, mutex>>
    /\ UNCHANGED <<sessVars, fwdVars, xferVars>>

\* if err != nil { return ... }
EarlyReturn(t) ==
    /\ Ready(t, "return")
    /\ tasks' = [tasks EXCEPT ![t] = IdleTask]
    /\ UNCHANGED <<build, histVars, connections, clients, dialed, slept, ret, mutex>>
    /\ UNCHANGED <<sessVars, fwdVars, xferVars>>

\* every step of a task but taking a mutex
Run(t) ==
    Release(t) \/ EnterCall(t) \/ ReturnCall(t) \/ Skip(t) \/ EarlyReturn(t)

LockNext ==
    \/ \E t \in 1..MaxTasks, op \in RootOps \cup ArtOps : StartTask(t, op)
    \/ \E t \in 1..MaxTasks : Acquire(t)
    \/ \E t \in 1..MaxTasks : Release(t)
    \/ \E t \in 1..MaxTasks : EnterCall(t)
    \/ \E t \in 1..MaxTasks : ReturnCall(t)
    \/ \E t \in 1..MaxTasks : Skip(t)
    \/ \E t \in 1..MaxTasks : EarlyReturn(t)

LockSpec == Init /\ [][LockNext]_vars

\* a running task is scheduled and every blocking call returns; a task
\* that waits in Lock() gets the mutex if it is free again and again
\* (sync.Mutex hands a starving waiter the mutex)
LockFairSpec ==
    /\ LockSpec
    /\ \A t \in 1..MaxTasks : WF_vars(Run(t)) /\ SF_vars(Acquire(t))

\* C25: the pool mutex is never held while a network call is in progress:
\* no task is inside a dial or a connection close while it holds the pool
\* lock.
C25_PoolLockNotHeldAcrossNetwork ==
    \A t \in 1..MaxTasks :
       ~(/\ tasks[t].at = "call"
         /\ "pool" \in Held(t)
         /\ Instr(t).arg \in {"dial", "close"})

\* a task stands in Lock()
Waiting(t) == tasks[t].at = "ready" /\ Instr(t).kind = "lock"

\* C26: no task ever holds two of the three registry mutexes at once, and
\* a task that waits for one of them does not wait forever.
C26_NoNestingNoStarvation ==
    /\ [](\A t \in 1..MaxTasks : Cardinality(Held(t)) <= 1)
    /\ \A t \in 1..MaxTasks : Waiting(t) ~> ~Waiting(t)

\* a task waits for a mutex that another task holds inside a blocking call
C26_Witness ==
    \E t, u \in 1..MaxTasks :
       /\ Waiting(t)
       /\ mutex[Instr(t).arg] = u
       /\ tasks[u].at = "call"

\* ------------------------------------------------------------ idle sweep
\* the sweeper next to the calls that use a pooled connection
SweepNext ==
    \/ \E p \in SessionProfiles : ConnectDial(PasswordConfig(p))
    \/ \E d \in dialed : ConnectStore(d)
    \/ \E p \in Profiles : GetConnection(p)
    \/ \E p \in SessionProfiles : FirstExecute(p, Ls)
    \/ \E p \in SessionProfiles, lp \in LocalPorts, rp \in RemotePorts, d \in BOOLEAN :
          ArtPortForward(p, lp, rp, d)
    \/ \E p \in SessionProfiles : ArtDownloadFile(p, "r", "g")
    \/ Tick
    \/ cleanupIdleConnections

SweepSpec == Init /\ [][SweepNext]_vars

\* a call of acquire, execute, forward start or a file operation for the
\* profile
UseCall(p) ==
    \/ GetConnection(p)
    \/ ExecuteStart(p, Ls) \/ ArtExecuteStart(p, Ls)
    \/ \E lp \in LocalPorts, rp \in RemotePorts, d \in BOOLEAN :
          PortForward(p, lp, rp, d) \/ ArtPortForward(p, lp, rp, d)
    \/ UploadFile(p, "f", "r") \/ ArtUploadFile(p, "f", "r")
    \/ DownloadFile(p, "r", "g") \/ ArtDownloadFile(p, "r", "g")

\* the entries a step takes out of the pool
Removed == {k \in DOMAIN connections : k \notin DOMAIN connections'}

\* C27: where the sweeper runs, the sweep closes a pooled connection only
\* if it was not used for longer than the idle threshold: every entry the
\* sweep removes has been idle for more than IdleTicks, and every acquire,
\* execute, forward start and file operation of a profile sets the idle
\* time of the profile's entry back to zero, so that an entry used within
\* the threshold is never closed by the sweep.
C27_SweepClosesOnlyIdle ==
    [][SweeperStarted =>
         /\ cleanupIdleConnections =>
               \A k \in Removed : connections[k].idle > IdleTicks
         /\ \A p \in Profiles :
               (UseCall(p) /\ PoolKey(p, Address(p)) \in DOMAIN connections')
                  => connections'[PoolKey(p, Address(p))].idle = 0]_vars

\* the sweep has closed the transport of one profile and kept the entry of
\* another, used within the threshold
C27_Witness ==
    /\ slept = 0
    /\ \E c \in DOMAIN clients : ~clients[c].open
    /\ \E k \in DOMAIN connections :
          /\ clients[connections[k].Client].open
          /\ connections[k].idle = IdleTicks

\* --------------------------------------------- sessions and pool closing
\* one invocation next to the operations that close pooled connections:
\* disconnect (DisconnectSSH of the root program, CloseConnection in
\* artifacts), the sweep and the shutdown
CloseNext ==
    \/ \E p \in SessionProfiles : ConnectDial(PasswordConfig(p))
    \/ \E d \in dialed : ConnectStore(d)
    \/ \E p \in SessionProfiles : FirstExecute(p, Ls)
    \/ \E s \in DOMAIN sessions, code \in ExitCodes : CmdExit(s, code)
    \/ SessionStep
    \/ \E p \in SessionProfiles : DisconnectSSH(p)
    \/ \E p \in SessionProfiles : CloseConnection(p)
    \/ closeAllConnections
    \/ cleanupIdleConnections
    \/ Tick

CloseSpec == Init /\ [][CloseNext]_vars

\* the goroutines of an invocation are never starved, and time passes
CloseFairSpec == CloseSpec /\ WF_vars(SessionStep) /\ WF_vars(Tick)

\* the pooled connection of a running session has been closed by the pool
ClosedUnderSession(s) ==
    /\ s \in DOMAIN sessions
    /\ Running(s)
    /\ ~clients[sessions[s].client].open

\* the invocation has returned, both its readers have finished, and the
\* registry holds no entry for it
SessionGone(s) ==
    /\ s \in DOMAIN sessions
    /\ sessions[s].pc = "returned"
    /\ DrainsDone(sessions[s].rd)
    /\ \A p \in DOMAIN activeSessions : activeSessions[p] # s

\* C28: if the pooled connection of a profile is closed while a session of
\* that profile is running, the session eventually ends, its readers
\* finish, and its entry is removed from the session registry.
C28_ClosedConnectionEndsSession ==
    \A s \in 1..MaxSessions : ClosedUnderSession(s) ~> SessionGone(s)

\* ------------------------------------------------------------- ownership
\* a step of one of the pool's lifecycle operations: release/disconnect,
\* idle sweep, shutdown
LifecycleStep ==
    \/ \E p \in Profiles : DisconnectSSH(p) \/ CloseConnection(p)
    \/ cleanupIdleConnections
    \/ closeAllConnections

\* the transports a step closes
ClosedByStep == {c \in DOMAIN clients : clients[c].open /\ ~clients'[c].open}

\* C29: a pooled transport connection is closed only by the pool's own
\* lifecycle operations: a step of execute, stop, forward start, forward
\* stop, an accept loop, a copy task or a file operation closes no
\* transport.
C29_OnlyPoolClosesTransport ==
    [][ClosedByStep # {} => LifecycleStep]_vars

\* -------------------------------------------------------- failing connect
\* a connect call for the configuration returns an error
ConnectFails(cfg) ==
    /\ ConnectDial(cfg)
    /\ ret' # ret
    /\ ret'.err # "nil"

\* C30: every failing connect leaves the pool exactly as it was: a profile
\* without name, host or username, one with neither password nor key path,
\* one with an unreadable or unparsable key and a failed dial add no entry
\* and neither remove nor replace an entry; the profiles that fail the
\* validation are rejected with their own error before any dial.  The same
\* holds for a failing GetConnection, the connect of artifacts/main.go.
C30_FailedConnectKeepsPool ==
    [][/\ \A cfg \in SSHConfigs :
             ConnectFails(cfg) =>
                /\ connections' = connections
                /\ ConnectValidate(cfg) # "nil" =>
                      /\ ret'.err = ConnectValidate(cfg)
                      /\ UNCHANGED <<clients, dialed>>
       /\ \A p \in Profiles :
             (GetConnection(p) /\ ret'.err # "nil") => connections' = connections]_vars

\* a connect has failed in the dial for a profile that has a pool entry
C30_Witness ==
    /\ ret.op = "ConnectSSHWithHostKeyCheck"
    /\ ret.err = "failed to connect"
    /\ ret.arg \in DOMAIN connections

\* ------------------------------------------------ forward start and stop
\* forward starts and stops next to connect, disconnect and transport
\* failures, on both local ports and one remote port; no connection is
\* accepted
StartRemotePorts == {9090}

StartNext ==
    \/ \E p \in SessionProfiles : ConnectDial(PasswordConfig(p))
    \/ \E d \in dialed : ConnectStore(d)
    \/ \E p \in SessionProfiles : DisconnectSSH(p)
    \/ \E c \in DOMAIN clients : RemoteFail(c)
    \/ \E p \in SessionProfiles, lp \in LocalPorts, rp \in StartRemotePorts, d \in BOOLEAN :
          PortForward(p, lp, rp, d)
    \/ \E p \in SessionProfiles, lp \in LocalPorts, rp \in StartRemotePorts, d \in BOOLEAN :
          ArtPortForward(p, lp, rp, d)
    \/ \E p \in SessionProfiles, lp \in LocalPorts, rp \in StartRemotePorts, d \in BOOLEAN :
          StopPortForward(p, lp, rp, d)
    \/ \E l \in DOMAIN listeners : AcceptFail(l)

StartSpec == Init /\ [][StartNext]_vars

\* the errors of a start whose listen call failed
ListenErrors == {"failed to set up port forwarding", "failed to listen"}

\* C31: if forward start cannot open its listener, start returns an error,
\* adds no entry to the forward registry and starts no accept loop: a start
\* on a local port that an open listener holds, or on a remote port over a
\* transport that is down or forwards the port already, returns the listen
\* error, and every start that returns the listen error leaves the registry
\* and the listeners with their accept loops as they were.
C31_ListenFailureStartsNothing ==
    [][\A p \in SessionProfiles, lp \in LocalPorts, rp \in StartRemotePorts, d \in BOOLEAN :
          /\ ((PortForward(p, lp, rp, d) \/ ArtPortForward(p, lp, rp, d))
                 /\ ret'.err \in ListenErrors)
                => UNCHANGED <<activeForwards, heap, listeners>>
          /\ (/\ PortForward(p, lp, rp, d)
              /\ p \in DOMAIN connections
              /\ ~CanListen(connections[p].Client, PortForwardRec(lp, rp, d)))
                => ret'.err \in ListenErrors
          /\ (ArtPortForward(p, lp, rp, FALSE) /\ ~LocalPortFree(lp) /\ ret'.op = "PortForward")
                => ret'.err # "nil"]_vars

\* a start has failed on a local port that the open listener of a
\* registered forward holds
C31_Witness ==
    /\ ret.op = "PortForward"
    /\ ret.err = "failed to set up port forwarding"
    /\ \E l \in DOMAIN listeners : listeners[l].open /\ ~listeners[l].forward.IsRemoteToLocal
    /\ \A lp \in LocalPorts : ~LocalPortFree(lp) \/ Len(listeners) = 1
    /\ \E p \in DOMAIN activeForwards : activeForwards[p].len = Len(listeners)

\* the forward has an open listener whose accept loop runs
LoopRuns(profile, forward) ==
    \E l \in DOMAIN listeners :
       /\ listeners[l].profile = profile
       /\ listeners[l].forward = forward
       /\ listeners[l].open
       /\ listeners[l].loop = "accept"

\* C32: in every reachable state every entry list(profile) returns has an
\* open listener with a running accept loop; once the accept loop of a
\* forward has ended on an accept error its entry is no longer listed.
C32_ListedForwardsAreLive ==
    \A p \in SessionProfiles :
       LET entries == Elems(heap, GetActivePortForwards(p)) IN
       \A i \in 1..Len(entries) : LoopRuns(p, entries[i])


\* ------------------------------------------------------ file operations
\* the path a rename moves a remote file to
NewPaths == {"s"}

\* sftpClient.Remove(path) and sftpClient.Rename(oldPath, newPath) on the
\* files of the server: the error and the files afterwards
RemoteOp(op, from, to) ==
    IF from \notin DOMAIN remoteFiles
    THEN [err |-> "no such file", files |-> remoteFiles]
    ELSE IF op = "delete"
    THEN [err |-> "nil", files |-> Delete(remoteFiles, from)]
    ELSE IF to \in DOMAIN remoteFiles
    THEN [err |-> "failure", files |-> remoteFiles]
    ELSE [err |-> "nil", files |-> Put(Delete(remoteFiles, from), to, remoteFiles[from])]

\* a delete or rename over a sub-channel of client c: sftp.NewClient, the
\* request, and the return; sftp is "closed" when the function defers
\* sftpClient.Close() and "open" when it does not
SubChannelOp(name, op, profile, c, cls, from, to, sftp) ==
    \/ /\ ret' = Ret(name, profile, "failed to create SFTP client", 0)
       /\ UNCHANGED xferVars
    \/ /\ cls[c].open /\ ~cls[c].broken
       /\ Len(transfers) < MaxTransfers
       /\ LET r == RemoteOp(op, from, to) IN
          /\ transfers' = Append(transfers,
                [NewTransfer(op, profile, c, from, to, 0)
                    EXCEPT !.pc = "done", !.sftp = sftp, !.err = r.err])
          /\ remoteFiles' = r.files
          /\ ret' = Ret(name, profile, r.err, c)
       /\ UNCHANGED localFiles

\* a.getSFTPClient(name) of the root program (app.go:565-588) and the
\* request on the client it returns: the pool is read under the name, and
\* no caller closes the client
WithSFTPClient(name, op, profile, from, to) ==
    /\ build = "root"
    /\ TransfersDone
    /\ IF profile \notin DOMAIN connections
       THEN /\ ret' = Ret(name, profile, "failed to get SFTP client", 0)
            /\ UNCHANGED xferVars
       ELSE SubChannelOp(name, op, profile, connections[profile].Client, clients,
                         from, to, "open")
    /\ UNCHANGED <<build, histVars, lockVars, connections, clients, dialed, slept>>
    /\ UNCHANGED <<sessVars, fwdVars>>

\* App.DeleteFile of the root program (app.go:534-546)
DeleteFile(profile, remotePath) ==
    WithSFTPClient("DeleteFile", "delete", profile, remotePath, remotePath)

\* App.RenameFile of the root program (app.go:549-561)
RenameFile(profile, oldPath, newPath) ==
    WithSFTPClient("RenameFile", "rename", profile, oldPath, newPath)

\* a.getSSHClient(profile) of artifacts/main.go followed by a request over
\* a sub-channel that the function closes on return (artifacts/main.go:
\* 336-365)
WithGetSSHClient(name, op, profile, from, to) ==
    LET key == PoolKey(profile, Address(profile))
        hit == key \in DOMAIN connections
        c == IF hit THEN connections[key].Client ELSE Len(clients) + 1
        cls == IF hit THEN clients ELSE Append(clients, NewClient(profile))
    IN /\ build = "artifacts"
       /\ TransfersDone
       /\ \/ /\ ~hit
             /\ ret' = Ret(name, profile, "failed to connect", 0)
             /\ UNCHANGED <<connections, clients>>
             /\ UNCHANGED xferVars
          \/ /\ hit \/ Len(clients) < MaxDials
             /\ clients' = cls
             /\ connections' = IF hit THEN GetConnectionHit(connections, key)
                               ELSE StoreConnection(connections, key, c)
             /\ SubChannelOp(name, op, profile, c, cls, from, to, "closed")
       /\ UNCHANGED <<build, histVars, lockVars, dialed, slept>>
       /\ UNCHANGED <<sessVars, fwdVars>>

\* App.DeleteRemoteFile of artifacts/main.go (artifacts/main.go:336-349)
DeleteRemoteFile(profile, path) ==
    WithGetSSHClient("DeleteRemoteFile", "delete", profile, path, path)

\* App.RenameRemoteFile of artifacts/main.go (artifacts/main.go:352-365)
RenameRemoteFile(profile, oldPath, newPath) ==
    WithGetSSHClient("RenameRemoteFile", "rename", profile, oldPath, newPath)

\* uploads, downloads, deletes and renames one after the other
FileNext ==
    \/ \E p \in SessionProfiles : ConnectDial(PasswordConfig(p))
    \/ \E d \in dialed : ConnectStore(d)
    \/ \E bytes \in FilesUpTo(MaxFileLen) : WriteLocalFile("f", bytes)
    \/ \E p \in SessionProfiles : UploadFile(p, "f", "r")
    \/ \E p \in SessionProfiles : ArtUploadFile(p, "f", "r")
    \/ \E p \in SessionProfiles : DownloadFile(p, "r", "g")
    \/ \E p \in SessionProfiles : ArtDownloadFile(p, "r", "g")
    \/ \E t \in DOMAIN transfers : ProgressRead(t)
    \/ \E t \in DOMAIN transfers : CopyRound(t)
    \/ \E t \in DOMAIN transfers : LoopRound(t)
    \/ \E p \in SessionProfiles, r \in RemotePaths : DeleteFile(p, r)
    \/ \E p \in SessionProfiles, r \in RemotePaths, s \in NewPaths : RenameFile(p, r, s)
    \/ \E p \in SessionProfiles, r \in RemotePaths : DeleteRemoteFile(p, r)
    \/ \E p \in SessionProfiles, r \in RemotePaths, s \in NewPaths : RenameRemoteFile(p, r, s)

FileSpec == Init /\ [][FileNext]_vars

\* C33: every file operation closes the file-transfer sub-channel it opened
\* before it returns, on success and on every error path: in every
\* reachable state every file operation that has returned has its
\* sub-channel closed.
C33_ReturnedOperationsCloseSubChannel ==
    \A t \in DOMAIN transfers :
       transfers[t].pc = "done" => transfers[t].sftp = "closed"


\* the step is the completion of session s (its deferred calls run) or the
\* removal a stop makes for the session it had looked up
EndsSession(s) ==
    \/ sessions[s].pc = "deferred" /\ sessions'[s].pc = "returned"
    \/ \E k \in stops : /\ k.session = s
                        /\ k.pc \in {"force", "cancel"}
                        /\ [k EXCEPT !.pc = "emit"] \in stops'

\* the registry holds an entry that refers to session s
Registered(s) ==
    /\ sessions[s].profile \in DOMAIN activeSessions
    /\ activeSessions[sessions[s].profile] = s

\* C34: a session registry entry is removed only by the completion or the
\* stop of the very session it refers to, and while a command is still
\* running the registry holds an entry that refers to its session.
C34_EntryFollowsItsSession ==
    /\ [](\A s \in DOMAIN sessions : Running(s) => Registered(s))
    /\ [][\A p \in DOMAIN activeSessions :
             p \notin DOMAIN activeSessions' => EndsSession(activeSessions[p])]_vars


\* C35: in both directions and for both copy tasks of every accepted pair
\* the destination handed to copyIO is a TCP connection, so the type
\* assertion of copyIO never fails and no accepted connection makes the
\* process panic.
C35_CopyDestinationIsTCP ==
    /\ ~panicked
    /\ \A p \in DOMAIN pairs, t \in CopyTasks :
          (build = "root" /\ pairs[p].pc = "copy") => DstType(p, t) = "TCPConn"


\* the forward of the profile was started and is no longer registered
Stopped(profile, forward) ==
    /\ \E l \in DOMAIN listeners :
          listeners[l].profile = profile /\ listeners[l].forward = forward
    /\ \A i \in 1..Len(Elems(heap, ForwardsOf(activeForwards, profile))) :
          Elems(heap, ForwardsOf(activeForwards, profile))[i] # forward

\* C36: after stop(profile, localPort, remotePort, local to remote) has
\* succeeded, a following start with the same tuple can succeed again: when
\* the stop returns, the local port of the stopped forward is free to be
\* bound.
C36_StoppedForwardCanRestart ==
    \A p \in SessionProfiles, lp \in LocalPorts, rp \in StartRemotePorts :
       (/\ build = "root"
        /\ ret = Ret("StopPortForward", p, "nil", 0)
        /\ Stopped(p, PortForwardRec(lp, rp, FALSE)))
          => LocalPortFree(lp)


\* the readers of invocation s were started and have lost their input: the
\* remote command has exited or the sub-channel has been closed
ReadersMustEnd(s) ==
    /\ s \in DOMAIN sessions
    /\ Started(s)
    /\ sessions[s].exited # "none" \/ ~sessions[s].open

\* C37: for every call of execute that started the stdout and stderr
\* reader tasks, both reader tasks eventually terminate, also when execute
\* returns early because the write of the command line fails: no reader
\* stays blocked on its completion signal.
C37_ReadersTerminate ==
    \A s \in 1..MaxSessions, r \in Streams :
       ReadersMustEnd(s) ~> (s \in DOMAIN sessions /\ sessions[s].rd[r].pc = "done")


\* --------------------------------------------------------- saved commands
\* a call on the saved commands of the root program is made
CallSaved(t, op) ==
    /\ build = "root"
    /\ tasks[t] = IdleTask
    /\ op \in SavedOps
    /\ tasks' = [tasks EXCEPT ![t] = [op |-> op, pc |-> 1, at |-> "ready"]]
    /\ UNCHANGED <<build, histVars, connections, clients, dialed, slept, ret, mutex>>
    /\ UNCHANGED <<sessVars, fwdVars, xferVars>>

SavedNext ==
    \/ \E t \in 1..MaxTasks, op \in SavedOps : CallSaved(t, op)
    \/ \E t \in 1..MaxTasks : Acquire(t)
    \/ \E t \in 1..MaxTasks : Release(t)
    \/ \E t \in 1..MaxTasks : EnterCall(t)
    \/ \E t \in 1..MaxTasks : ReturnCall(t)
    \/ \E t \in 1..MaxTasks : Skip(t)
    \/ \E t \in 1..MaxTasks : EarlyReturn(t)

SavedSpec == Init /\ [][SavedNext]_vars

\* a running task is scheduled, every file and network call returns, and a
\* waiter gets a mutex that is free again and again
SavedFairSpec ==
    /\ SavedSpec
    /\ \A t \in 1..MaxTasks : WF_vars(Run(t)) /\ SF_vars(Acquire(t))

\* C38: SaveCommand and DeleteSavedCommand always return: neither blocks
\* forever on the mutex of the SavedCommandsManager.
C38_SaveAndDeleteReturn ==
    \A t \in 1..MaxTasks :
       (tasks[t].op \in {"SaveCommand", "DeleteSavedCommand"}) ~> (tasks[t] = IdleTask)


\* -------------------------------------------------------- command history
maxHistorySize == 100

MaxAdds == 101
MaxOther == 1

\* the commands added: one character each, never empty
HistoryCommands == {<<"x">>, <<"y">>}

\* a file is kept as the pieces strings.Split(content, "\n") gives: the
\* text between its newlines, in order.  The empty file is one empty piece,
\* and a content that ends with a newline has an empty last piece.
EmptyFile == << <<>> >>

\* file.WriteString(command + "\n") in append mode (terminal.go:65-71), for
\* a command without a newline: the command extends the last piece and the
\* newline starts a new, empty one
WriteString(pieces, command) ==
    [pieces EXCEPT ![Len(pieces)] = @ \o command] \o << <<>> >>

\* the last n elements of a sequence
LastN(seq, n) == SubSeq(seq, Len(seq) - n + 1, Len(seq))

\* trimHistory (terminal.go:83-96): lines is every piece of the content;
\* more than maxHistorySize of them are cut to the last maxHistorySize and
\* joined again
trimHistory(pieces) ==
    IF Len(pieces) > maxHistorySize THEN LastN(pieces, maxHistorySize) ELSE pieces

\* the tokens of bufio.Scanner with ScanLines (terminal.go:38-41): a final
\* newline ends the last line and starts none, so an empty last piece is
\* no token
ScanLines(pieces) ==
    IF pieces[Len(pieces)] = <<>> THEN SubSeq(pieces, 1, Len(pieces) - 1) ELSE pieces

\* the swap loop of GetCommandHistory (terminal.go:48-51)
Reverse(history) == [i \in 1..Len(history) |-> history[Len(history) + 1 - i]]

\* AddCommandToHistory (terminal.go:56-81): command + "\n" is appended to
\* the file of the profile, created if absent, and the file is trimmed; the
\* file cannot be opened in the other branch
AddCommandToHistory(profile, command) ==
    /\ Len(added) < MaxAdds
    /\ command = <<"x">> \/ Cardinality({i \in DOMAIN added : added[i] # <<"x">>}) < MaxOther
    /\ \/ /\ ret' = Ret("AddCommandToHistory", profile, "failed to open history file", 0)
          /\ UNCHANGED histVars
       \/ /\ historyFiles' = Put(historyFiles, profile,
                trimHistory(WriteString(IF profile \in DOMAIN historyFiles
                                        THEN historyFiles[profile] ELSE EmptyFile,
                                        command)))
          /\ added' = Append(added, command)
          /\ ret' = Ret("AddCommandToHistory", profile, "nil", 0)
    /\ UNCHANGED <<build, lockVars, connections, clients, dialed, slept>>
    /\ UNCHANGED <<sessVars, fwdVars, xferVars>>

\* GetCommandHistory (terminal.go:23-54): the lines of the file, reversed;
\* the empty list when the file does not exist
GetCommandHistory(profile) ==
    /\ ret' = [op |-> "GetCommandHistory", arg |-> profile, err |-> "nil", client |-> 0,
               history |-> IF profile \in DOMAIN historyFiles
                           THEN Reverse(ScanLines(historyFiles[profile]))
                           ELSE <<>>]
    /\ UNCHANGED <<build, histVars, lockVars, connections, clients, dialed, slept>>
    /\ UNCHANGED <<sessVars, fwdVars, xferVars>>

HistoryNext ==
    \/ \E p \in SessionProfiles, cmd \in HistoryCommands : AddCommandToHistory(p, cmd)
    \/ \E p \in SessionProfiles : GetCommandHistory(p)

HistorySpec == Init /\ [][HistoryNext]_vars

\* C39: after any n calls of AddCommandToHistory for one profile,
\* GetCommandHistory returns the min(n, 100) most recently added commands,
\* the most recent first, none of them empty.
C39_HistoryIsLastHundred ==
    ret.op = "GetCommandHistory" =>
       /\ ret.history = Reverse(LastN(added, Min(Len(added), maxHistorySize)))
       /\ \A i \in 1..Len(ret.history) : ret.history[i] # <<>>

=============================================================================
